---- MODULE Spec2Model ----
(***************************************************************************)
(* Model of the Starlink speed-test statistics core                        *)
(* (starlink_reporter/analysis.py): extract_metrics, calculate_statistics, *)
(* analyze_file_silent, calculate_heuristic_score, rank_datasets and       *)
(* calculate_consistency_metrics, together with the loader                 *)
(* (data_loader.py) and the two modes of main() that drive them: the batch *)
(* mode (--all) and the single-file mode (--file).                         *)
(*                                                                         *)
(* Numbers.  The program computes with Python floats.  The model computes  *)
(* with exact rationals [n |-> numerator, d |-> denominator > 0] in lowest *)
(* terms, so that equality of records is equality of numbers.  The only    *)
(* irrational operation, the square root inside statistics.stdev, is       *)
(* rounded down to a multiple of 1/SqrtScale.                              *)
(*                                                                         *)
(* Exceptions.  A Python call either returns a value or raises.  A result  *)
(* is a record [exc |-> "" , val |-> v] (returned v) or                    *)
(* [exc |-> "<ExceptionName>", val |-> NoValue] (raised).                  *)
(*                                                                         *)
(* Layout.  A Python function whose locals are read more than once is      *)
(* written as a chain of operators, each taking the locals computed so far *)
(* as parameters, so that every intermediate value is computed once.       *)
(***************************************************************************)
EXTENDS Integers, Sequences, FiniteSets, TLC

\* ------------------------------------------------------------------ bounds
\* Longest record list of a dataset in the single-dataset specification.
MaxRecords == 3
\* Most files of a batch run.
MaxFiles == 3
\* The square root is rounded down to a multiple of 1/SqrtScale.
SqrtScale == 100

\* --------------------------------------------------------------- rationals
Abs(x) == IF x < 0 THEN -x ELSE x

RECURSIVE GCD(_, _)
GCD(a, b) == IF b = 0 THEN a ELSE GCD(b, a % b)

\* The rational n/d (d # 0) in lowest terms with a positive denominator.
Rat(n, d) ==
    LET s == IF d < 0 THEN -1 ELSE 1
        g == GCD(Abs(n), Abs(d))
    IN  [n |-> (s * n) \div g, d |-> (s * d) \div g]

R(x) == [n |-> x, d |-> 1]
Zero == R(0)
Hundred == R(100)

RAdd(a, b) == Rat(a.n * b.d + b.n * a.d, a.d * b.d)
RSub(a, b) == Rat(a.n * b.d - b.n * a.d, a.d * b.d)
RMul(a, b) == Rat(a.n * b.n, a.d * b.d)
\* a / b for b # 0
RQuot(a, b) == Rat(a.n * b.d, a.d * b.n)
RLt(a, b) == a.n * b.d < b.n * a.d
RLe(a, b) == a.n * b.d <= b.n * a.d

\* -------------------------------------------------------------- exceptions
NoValue == Zero
Ok(v) == [exc |-> "", val |-> v]
Raise(e) == [exc |-> e, val |-> NoValue]
Raised(r) == r.exc # ""

\* The exception of the first of the results, in evaluation order, that
\* raised; "" when none did.
FirstRaised(results) ==
    LET failed == {i \in 1..Len(results) : Raised(results[i])}
    IN  IF failed = {} THEN ""
        ELSE results[CHOOSE i \in failed : \A j \in failed : i <= j].exc

\* Python's true division a / b.
PyDiv(a, b) == IF b = Zero THEN Raise("ZeroDivisionError") ELSE Ok(RQuot(a, b))

\* ------------------------------------------------------- Python sequences
Reverse(s) == [i \in 1..Len(s) |-> s[Len(s) + 1 - i]]

RECURSIVE PySum(_)
PySum(values) ==
    IF values = <<>> THEN Zero ELSE RAdd(values[1], PySum(Tail(values)))

\* min(values): the first least element; ValueError on an empty sequence.
PyMin(values) ==
    IF values = <<>> THEN Raise("ValueError")
    ELSE Ok(values[CHOOSE i \in 1..Len(values) :
                /\ \A j \in 1..Len(values) : RLe(values[i], values[j])
                /\ \A j \in 1..(i - 1) : RLt(values[i], values[j])])

\* max(values): the first greatest element; ValueError on an empty sequence.
PyMax(values) ==
    IF values = <<>> THEN Raise("ValueError")
    ELSE Ok(values[CHOOSE i \in 1..Len(values) :
                /\ \A j \in 1..Len(values) : RLe(values[j], values[i])
                /\ \A j \in 1..(i - 1) : RLt(values[j], values[i])])

\* A sort works on the places 1..Len(keys) of the list: keys[p] is the sort
\* key of the element at place p.  One step of a stable ascending sort: the
\* place p goes behind every place whose key is not greater than its own.
InsertAt(sorted, k, p) ==
    SubSeq(sorted, 1, k) \o <<p>> \o SubSeq(sorted, k + 1, Len(sorted))

SetMax(S) == IF S = {} THEN 0 ELSE CHOOSE j \in S : \A m \in S : m <= j

SortInsert(keys, sorted, p) ==
    InsertAt(sorted,
             SetMax({j \in 1..Len(sorted) : RLe(keys[sorted[j]], keys[p])}),
             p)

\* The places 1..n in stable ascending order of their keys.
RECURSIVE StableSort(_, _)
StableSort(keys, n) ==
    IF n = 0 THEN <<>> ELSE SortInsert(keys, StableSort(keys, n - 1), n)

\* The items in the order given by a list of places.
ApplyOrder(items, order) == [i \in 1..Len(items) |-> items[order[i]]]

SortedAscending(items, keys) == ApplyOrder(items, StableSort(keys, Len(keys)))

\* sorted(items, key=..., reverse=reverse), keys[p] being the key of
\* items[p].  list.sort reverses the list, sorts it stably in ascending
\* order and reverses the result when reverse is set.
PySorted(items, keys, reverse) ==
    IF reverse THEN Reverse(SortedAscending(Reverse(items), Reverse(keys)))
    ELSE SortedAscending(items, keys)

\* -------------------------------------------------------- statistics module
\* statistics.mean
mean(values) ==
    IF values = <<>> THEN Raise("StatisticsError")
    ELSE Ok(RQuot(PySum(values), R(Len(values))))

\* statistics.median
\* Variant: the even case adds the two middle values and does not halve.
median_of_sorted_unhalved(sorted) ==
    LET n == Len(sorted)
        i == n \div 2
    IN  IF n = 0 THEN Raise("StatisticsError")
        ELSE IF n % 2 = 1 THEN Ok(sorted[i + 1])
        ELSE Ok(RAdd(sorted[i], sorted[i + 1]))

median_of_sorted(sorted) ==
    LET n == Len(sorted)
        i == n \div 2
    IN  IF n = 0 THEN Raise("StatisticsError")
        ELSE IF n % 2 = 1 THEN Ok(sorted[i + 1])
        ELSE Ok(RQuot(RAdd(sorted[i], sorted[i + 1]), R(2)))

\* Variant: the middle of the values as given, not of the sorted values.
median_unsorted(values) == median_of_sorted(values)

median(values) == median_of_sorted(PySorted(values, values, FALSE))

RECURSIVE SumSquares(_, _)
SumSquares(values, c) ==
    IF values = <<>> THEN Zero
    ELSE RAdd(RMul(RSub(values[1], c), RSub(values[1], c)),
              SumSquares(Tail(values), c))

\* The greatest k in lo..hi with k * k <= x (lo * lo <= x < (hi + 1)^2).
RECURSIVE ISqrtIn(_, _, _)
ISqrtIn(x, lo, hi) ==
    IF lo >= hi THEN lo
    ELSE LET mid == (lo + hi + 1) \div 2
         IN  IF mid * mid <= x THEN ISqrtIn(x, mid, hi)
             ELSE ISqrtIn(x, lo, mid - 1)

\* math.sqrt of a rational q >= 0, rounded down to a multiple of 1/SqrtScale.
\* No root of a 32-bit integer exceeds 46340.
ISqrt(x) == ISqrtIn(x, 0, IF x < 46340 THEN x ELSE 46340)

Sqrt(q) == Rat(ISqrt((q.n * SqrtScale * SqrtScale) \div q.d), SqrtScale)

\* statistics.stdev: the sample standard deviation.
variance(values) ==
    RQuot(SumSquares(values, RQuot(PySum(values), R(Len(values)))),
          R(Len(values) - 1))

stdev(values) ==
    IF Len(values) < 2 THEN Raise("StatisticsError")
    ELSE Ok(Sqrt(variance(values)))

\* collections.Counter(values).most_common(1): the value counted most often,
\* the first encountered among those counted equally often.
Count(values, x) == Cardinality({i \in 1..Len(values) : values[i] = x})

\* Variant: among the most frequent values, the one encountered last.
mode_last(values) ==
    IF values = <<>> THEN Raise("StatisticsError")
    ELSE Ok(values[CHOOSE i \in 1..Len(values) :
                /\ \A j \in 1..Len(values) :
                       Count(values, values[j]) <= Count(values, values[i])
                /\ \A j \in (i + 1)..Len(values) :
                       Count(values, values[j]) < Count(values, values[i])])

mode(values) ==
    IF values = <<>> THEN Raise("StatisticsError")
    ELSE Ok(values[CHOOSE i \in 1..Len(values) :
                /\ \A j \in 1..Len(values) :
                       Count(values, values[j]) <= Count(values, values[i])
                /\ \A j \in 1..(i - 1) :
                       Count(values, values[j]) < Count(values, values[i])])

\* ------------------------------------------------------------- analysis.py
\* A speed-test record is a function from the keys it holds to their values.
\* The key "download" stands for the path entry["download"]["mbps"], "upload"
\* for entry["upload"]["mbps"] and "ping" for entry["ping"]["latency"]: a
\* lookup of an absent key raises KeyError at either level of the path.
HasKey(entry, k) == k \in DOMAIN entry

\* dict.get(k, default)
Get(entry, k, default) == IF HasKey(entry, k) THEN entry[k] ELSE default

\* One iteration of the loop of extract_metrics: the three appends run in
\* order and the first KeyError leaves the loop body through `continue`.
extract_entry(metrics, entry) ==
    IF ~HasKey(entry, "download") THEN metrics
    ELSE LET m1 == [metrics EXCEPT !.download = Append(@, entry["download"])]
         IN  IF ~HasKey(entry, "upload") THEN m1
             ELSE LET m2 == [m1 EXCEPT !.upload = Append(@, entry["upload"])]
                  IN  IF ~HasKey(entry, "ping") THEN m2
                      ELSE [m2 EXCEPT !.latency = Append(@, entry["ping"])]

\* Variant: the first KeyError ends the loop (break in place of continue).
RECURSIVE extract_loop_break(_, _)
extract_loop_break(metrics, entries) ==
    IF entries = <<>> THEN metrics
    ELSE IF {"download", "upload", "ping"} \subseteq DOMAIN Head(entries)
    THEN extract_loop_break(extract_entry(metrics, Head(entries)), Tail(entries))
    ELSE extract_entry(metrics, Head(entries))

RECURSIVE extract_loop(_, _)
extract_loop(metrics, entries) ==
    IF entries = <<>> THEN metrics
    ELSE extract_loop(extract_entry(metrics, Head(entries)), Tail(entries))

extract_metrics(entries) ==
    extract_loop([download |-> <<>>, upload |-> <<>>, latency |-> <<>>], entries)

\* The dict of lines 29-33, its values evaluated in the order written.
statistics_dict(lo, mid, hi) ==
    IF FirstRaised(<<lo, mid, hi>>) # "" THEN Raise(FirstRaised(<<lo, mid, hi>>))
    ELSE Ok([min |-> lo.val, median |-> mid.val, max |-> hi.val])

\* Variant: no policy for the empty series.
calculate_statistics_unguarded(values) ==
    statistics_dict(PyMin(values), median(values), PyMax(values))

calculate_statistics(values) ==
    IF values = <<>> THEN Ok([min |-> Zero, median |-> Zero, max |-> Zero])
    ELSE statistics_dict(PyMin(values), median(values), PyMax(values))

\* Variant: the first element is left out.
SeqToSetOfTail(s) == {s[i] : i \in 2..Len(s)}

SeqToSet(s) == {s[i] : i \in 1..Len(s)}

\* statistics.mode(values) if values else 0
mode_or_zero(values) == IF values # <<>> THEN mode(values) ELSE Ok(0)

\* The dict of lines 42-47; list(set(...)) is kept as the set.
directional_dict(directions, tilts, primary_direction, primary_tilt) ==
    IF FirstRaised(<<primary_direction, primary_tilt>>) # ""
    THEN Raise(FirstRaised(<<primary_direction, primary_tilt>>))
    ELSE Ok([empty |-> FALSE,
             direction_degrees |-> SeqToSet(directions),
             tilt_degrees |-> SeqToSet(tilts),
             primary_direction |-> primary_direction.val,
             primary_tilt |-> primary_tilt.val])

directional_of(directions, tilts) ==
    directional_dict(directions, tilts, mode_or_zero(directions), mode_or_zero(tilts))

\* The empty dict {} is [empty |-> TRUE].
get_directional_info(entries) ==
    IF entries = <<>> THEN Ok([empty |-> TRUE])
    ELSE directional_of(
             [i \in 1..Len(entries) |-> Get(entries[i], "direction_degrees", 0)],
             [i \in 1..Len(entries) |-> Get(entries[i], "tilt", 0)])

\* Variant: statistics.mean(series) without the test of the series.
mean_or_zero_unguarded(series) == mean(series)

\* Variant: the median in place of the mean.
median_or_zero(series) == IF series # <<>> THEN median(series) ELSE Ok(Zero)

\* statistics.mean(series) if series else 0
mean_or_zero(series) == IF series # <<>> THEN mean(series) ELSE Ok(Zero)

\* A timestamp string is [iso |-> BOOLEAN, t |-> Nat, aware |-> BOOLEAN]:
\* datetime.fromisoformat raises ValueError on a string that is no ISO-8601
\* date; the datetime it returns is t seconds after the epoch, and is aware
\* when the string carries a UTC offset (or the Z that line 69 rewrites).
fromisoformat(ts) ==
    IF ts.iso THEN Ok([t |-> ts.t, aware |-> ts.aware]) ELSE Raise("ValueError")

\* datetime - datetime, in seconds: an aware and a naive datetime cannot be
\* subtracted.
datetime_sub(a, b) ==
    IF a.aware # b.aware THEN Raise("TypeError") ELSE Ok(a.t - b.t)

parse_timestamp(entry) ==
    IF ~HasKey(entry, "timestamp") THEN Raise("KeyError")
    ELSE fromisoformat(entry["timestamp"])

\* The loop over the entries at lines 78-80: the timestamps appended before
\* the first entry that raises stay in the list.
RECURSIVE timestamps_loop(_, _)
timestamps_loop(timestamps, entries) ==
    IF entries = <<>> THEN timestamps
    ELSE LET ts == parse_timestamp(Head(entries))
         IN  IF Raised(ts) THEN timestamps
             ELSE timestamps_loop(Append(timestamps, ts.val), Tail(entries))

\* Line 74, given the two datetimes: the TypeError of the subtraction is not
\* among the exceptions line 81 catches.
time_span_sub(entries, duration) ==
    IF Raised(duration) THEN Raise(duration.exc)
    ELSE Ok([duration |-> [known |-> TRUE, span |-> duration.val],
             timestamps |-> timestamps_loop(<<>>, entries)])

\* Lines 66-82: the duration and the timestamps, under one try block that
\* swallows ValueError and KeyError.  The duration "Unknown" is
\* [known |-> FALSE, span |-> 0].
time_span_of(entries, first_test, last_test) ==
    IF Raised(first_test) \/ Raised(last_test)
    THEN Ok([duration |-> [known |-> FALSE, span |-> 0], timestamps |-> <<>>])
    ELSE time_span_sub(entries, datetime_sub(last_test.val, first_test.val))

time_span(entries) ==
    time_span_of(entries, parse_timestamp(entries[1]),
                 parse_timestamp(entries[Len(entries)]))

None == [none |-> TRUE]

\* Variant: the records that reached the latency series are counted.
test_count_extracted(entries, metrics) == Len(metrics.latency)

\* "test_count": len(data)
test_count(entries, metrics) == Len(entries)

\* The dict of lines 84-100.  results are the values computed at lines
\* 58-82 in that order: directional_info, download_stats, upload_stats,
\* latency_stats, avg_download, avg_upload, avg_latency, and the duration
\* with the timestamps.
analysis_dict(json_file, entries, metrics, results) ==
    IF FirstRaised(results) # "" THEN Raise(FirstRaised(results))
    ELSE Ok([none |-> FALSE,
             filename |-> json_file,
             test_count |-> test_count(entries, metrics),
             duration |-> results[8].val.duration,
             metrics |-> metrics,
             timestamps |-> results[8].val.timestamps,
             download_stats |-> results[2].val,
             upload_stats |-> results[3].val,
             latency_stats |-> results[4].val,
             averages |-> [download |-> results[5].val,
                           upload |-> results[6].val,
                           latency |-> results[7].val],
             directional_info |-> results[1].val])

\* Lines 58-82, given the metrics of line 57.
analysis_of(json_file, entries, metrics) ==
    analysis_dict(json_file, entries, metrics,
                  <<get_directional_info(entries),
                    calculate_statistics(metrics.download),
                    calculate_statistics(metrics.upload),
                    calculate_statistics(metrics.latency),
                    mean_or_zero(metrics.download),
                    mean_or_zero(metrics.upload),
                    mean_or_zero(metrics.latency),
                    time_span(entries)>>)

analyze_file_silent(json_file, entries) ==
    IF entries = <<>> THEN Ok(None)
    ELSE analysis_of(json_file, entries, extract_metrics(entries))

\* Variant: no policy for a zero latency.
calculate_heuristic_score_unguarded(analysis) ==
    PyDiv(RAdd(analysis.averages.download, analysis.averages.upload),
          analysis.averages.latency)

\* Variant: avg_download + avg_upload / avg_latency, without the parentheses.
calculate_heuristic_score_unparenthesised(analysis) ==
    IF analysis.averages.latency = Zero THEN Ok(Zero)
    ELSE Ok(RAdd(analysis.averages.download,
                 RQuot(analysis.averages.upload, analysis.averages.latency)))

calculate_heuristic_score(analysis) ==
    LET avg_download == analysis.averages.download
        avg_upload == analysis.averages.upload
        avg_latency == analysis.averages.latency
    IN  IF avg_latency = Zero THEN Ok(Zero)
        ELSE PyDiv(RAdd(avg_download, avg_upload), avg_latency)

\* A ranking is a list of pairs <<filename, value>>; its sort key is x[1] of
\* the Python tuple, the value.
SortKeys(pairs) == [i \in 1..Len(pairs) |-> pairs[i][2]]

\* Variant: sorted(pairs, key=lambda x: x[1])[::-1]
rank_descending_unstable(pairs) ==
    Reverse(SortedAscending(pairs, SortKeys(pairs)))

\* Variant: the latency rankings sorted like all the others.
rank_ascending_reversed(pairs) == PySorted(pairs, SortKeys(pairs), TRUE)

\* Variant: one pair for each value, the first with it (a ranking built
\* through a dict keyed by the value).
rank_descending_distinct(pairs) ==
    LET first == {i \in 1..Len(pairs) :
                     \A j \in 1..(i - 1) : pairs[j][2] # pairs[i][2]}
        keep(p) == \E i \in first : pairs[i] = p
    IN  SelectSeq(PySorted(pairs, SortKeys(pairs), TRUE), keep)

\* sorted(pairs, key=lambda x: x[1], reverse=True)
rank_descending(pairs) == PySorted(pairs, SortKeys(pairs), TRUE)

\* sorted(pairs, key=lambda x: x[1])
rank_ascending(pairs) == PySorted(pairs, SortKeys(pairs), FALSE)

\* Lines 121-146, given the heuristic scores of lines 118-120.
rankings_dict(analyses, scores) ==
    IF FirstRaised(scores) # "" THEN Raise(FirstRaised(scores))
    ELSE Ok([
        heuristic |->
            rank_descending(
                [i \in 1..Len(analyses) |-> <<analyses[i].filename, scores[i].val>>]),
        avg_download |->
            rank_descending([i \in 1..Len(analyses) |->
                    <<analyses[i].filename, analyses[i].averages.download>>]),
        avg_upload |->
            rank_descending([i \in 1..Len(analyses) |->
                    <<analyses[i].filename, analyses[i].averages.upload>>]),
        avg_latency |->
            rank_ascending([i \in 1..Len(analyses) |->
                    <<analyses[i].filename, analyses[i].averages.latency>>]),
        median_download |->
            rank_descending([i \in 1..Len(analyses) |->
                    <<analyses[i].filename, analyses[i].download_stats.median>>]),
        median_upload |->
            rank_descending([i \in 1..Len(analyses) |->
                    <<analyses[i].filename, analyses[i].upload_stats.median>>]),
        median_latency |->
            rank_ascending([i \in 1..Len(analyses) |->
                    <<analyses[i].filename, analyses[i].latency_stats.median>>]),
        max_download |->
            rank_descending([i \in 1..Len(analyses) |->
                    <<analyses[i].filename, analyses[i].download_stats.max>>]),
        max_upload |->
            rank_descending([i \in 1..Len(analyses) |->
                    <<analyses[i].filename, analyses[i].upload_stats.max>>]),
        min_download |->
            rank_descending([i \in 1..Len(analyses) |->
                    <<analyses[i].filename, analyses[i].download_stats.min>>]),
        min_upload |->
            rank_descending([i \in 1..Len(analyses) |->
                    <<analyses[i].filename, analyses[i].upload_stats.min>>])])

rank_datasets(analyses) ==
    rankings_dict(analyses,
        [i \in 1..Len(analyses) |-> calculate_heuristic_score(analyses[i])])

\* Variant: statistics.stdev(series) without the test of the length.
std_or_zero_unguarded(series) == stdev(series)

\* statistics.stdev(series) if len(series) > 1 else 0
std_or_zero(series) == IF Len(series) > 1 THEN stdev(series) ELSE Ok(Zero)

\* Variant: std / average without the test of the average.
coefficient_of_variation_unguarded(std, average) == PyDiv(std, average)

\* Variant: std / average if average >= 0 else 0
coefficient_of_variation_nonnegative(std, average) ==
    IF RLe(Zero, average) THEN PyDiv(std, average) ELSE Ok(Zero)

\* std / average if average > 0 else 0
coefficient_of_variation(std, average) ==
    IF RLt(Zero, average) THEN PyDiv(std, average) ELSE Ok(Zero)

\* max(0, x): x when it is greater than 0
PyMaxZero(x) == IF RLt(Zero, x) THEN x ELSE Zero

\* Variant: 100 - (cv * 100) without the clamp at 0.
stability_score_unclamped(cv) == RSub(Hundred, RMul(cv, Hundred))

\* max(0, 100 - (cv * 100))
stability_score(cv) == PyMaxZero(RSub(Hundred, RMul(cv, Hundred)))

\* Variant: the weights 0.3, 0.4, 0.3.
overall_stability_score_reweighted(download_stability, upload_stability, latency_stability) ==
    RAdd(RAdd(RMul(download_stability, Rat(3, 10)),
              RMul(upload_stability, Rat(4, 10))),
         RMul(latency_stability, Rat(3, 10)))

\* download_stability * 0.4 + upload_stability * 0.3 + latency_stability * 0.3
overall_stability_score(download_stability, upload_stability, latency_stability) ==
    RAdd(RAdd(RMul(download_stability, Rat(4, 10)),
              RMul(upload_stability, Rat(3, 10))),
         RMul(latency_stability, Rat(3, 10)))

\* The dict of lines 182-199.
consistency_dict(stds, cvs, download_stability, upload_stability, latency_stability) ==
    [standard_deviations |-> [download |-> stds[1].val,
                              upload |-> stds[2].val,
                              latency |-> stds[3].val],
     coefficients_of_variation |-> [download |-> cvs[1].val,
                                    upload |-> cvs[2].val,
                                    latency |-> cvs[3].val],
     stability_scores |-> [
         download |-> download_stability,
         upload |-> upload_stability,
         latency |-> latency_stability,
         overall |-> overall_stability_score(
             download_stability, upload_stability, latency_stability)]]

\* Lines 176-199, given the standard deviations and the coefficients of
\* variation.
consistency_of_cvs(stds, cvs) ==
    IF FirstRaised(stds \o cvs) # "" THEN Raise(FirstRaised(stds \o cvs))
    ELSE Ok(consistency_dict(stds, cvs,
                             stability_score(cvs[1].val),
                             stability_score(cvs[2].val),
                             stability_score(cvs[3].val)))

\* Lines 161-199, given the standard deviations of lines 152-160.
consistency_of_stds(analysis, stds) ==
    consistency_of_cvs(stds,
        <<coefficient_of_variation(stds[1].val, analysis.averages.download),
          coefficient_of_variation(stds[2].val, analysis.averages.upload),
          coefficient_of_variation(stds[3].val, analysis.averages.latency)>>)

calculate_consistency_metrics(analysis) ==
    consistency_of_stds(analysis,
        <<std_or_zero(analysis.metrics.download),
          std_or_zero(analysis.metrics.upload),
          std_or_zero(analysis.metrics.latency)>>)

\* ---------------------------------------------------------- data_loader.py
\* What is found at the path of a JSON file: nothing (kind "missing"), text
\* that is no JSON (kind "invalid_json"), bytes that are no text in the
\* encoding of open() (kind "undecodable") or the JSON document data.
MissingFile == [kind |-> "missing", data |-> <<>>]
InvalidJsonFile == [kind |-> "invalid_json", data |-> <<>>]
UndecodableFile == [kind |-> "undecodable", data |-> <<>>]
JsonFile(d) == [kind |-> "json", data |-> d]

\* load_speed_data returns None after FileNotFoundError and JSONDecodeError;
\* the UnicodeDecodeError of reading undecodable bytes is no JSONDecodeError
\* and leaves the function.  The callers only test the result for truth, so
\* None is written <<>>, which is as false as the empty list.
load_speed_data(file) ==
    IF file.kind = "missing" THEN Ok(<<>>)
    ELSE IF file.kind = "invalid_json" THEN Ok(<<>>)
    ELSE IF file.kind = "undecodable" THEN Raise("UnicodeDecodeError")
    ELSE Ok(file.data)

\* The JSON values that are no rational of the model.  Under the key
\* "download" (entry["download"]["mbps"]; "upload" and "ping" alike):
\*   NumericText(x)  the string of a number, as in {"mbps": "1.5"}
\*   Text            a string that is no number, as in {"mbps": "fast"}
\*   Null            null, as in {"mbps": null}
\*   HugeInt         an integer beyond the range of float, as in {"mbps": 1e400
\*                   written out in digits}
\*   NoSubfield      entry["download"] is an object without "mbps"
\*   Scalar          entry["download"] is a number, not an object
NumericText(x) == [json |-> "numeric_text", value |-> x]
Text == [json |-> "text"]
Null == [json |-> "null"]
HugeInt == [json |-> "huge_int"]
NoSubfield == [json |-> "no_subfield"]
Scalar == [json |-> "scalar"]

\* A JSON document that is an object, not a list.  Every document of the
\* model is written as a sequence; this one is told from the lists by its
\* only element.
NotAList == <<[json |-> "not_a_list"]>>

IsNumber(v) == DOMAIN v = {"n", "d"}

\* isinstance(data, list)
IsList(d) == d # NotAList

\* float(v), applied to the value of a subfield
float(v) ==
    IF IsNumber(v) THEN Ok(v)
    ELSE IF v.json = "numeric_text" THEN Ok(v.value)
    ELSE IF v.json = "text" THEN Raise("ValueError")
    ELSE IF v.json = "huge_int" THEN Raise("OverflowError")
    ELSE Raise("TypeError")

\* "mbps" in sample["download"]: TypeError when sample["download"] is no
\* container.
subfield_in(v) ==
    IF IsNumber(v) THEN Ok(TRUE)
    ELSE IF v.json = "scalar" THEN Raise("TypeError")
    ELSE Ok(v.json # "no_subfield")

\* Lines 52-57, given the three float() calls in the order written: the
\* first that raises decides, and KeyError, ValueError and TypeError are
\* caught.
validate_floats(floats) ==
    IF FirstRaised(floats) = "" THEN Ok(TRUE)
    ELSE IF FirstRaised(floats) \in {"KeyError", "ValueError", "TypeError"}
    THEN Ok(FALSE)
    ELSE Raise(FirstRaised(floats))

\* Lines 46-51: the `and` chain stops at the first false test, and a
\* TypeError of a test is caught at line 56.
validate_subfields(sample) ==
    IF Raised(subfield_in(sample["download"])) THEN Ok(FALSE)
    ELSE IF ~subfield_in(sample["download"]).val THEN Ok(FALSE)
    ELSE IF Raised(subfield_in(sample["upload"])) THEN Ok(FALSE)
    ELSE IF ~subfield_in(sample["upload"]).val THEN Ok(FALSE)
    ELSE IF Raised(subfield_in(sample["ping"])) THEN Ok(FALSE)
    ELSE IF ~subfield_in(sample["ping"]).val THEN Ok(FALSE)
    ELSE validate_floats(<<float(sample["download"]),
                           float(sample["upload"]),
                           float(sample["ping"])>>)

\* Lines 41-57.  A first record that is no object is written Scalar: its
\* `field in sample` raises TypeError, which is caught.
validate_sample(sample) ==
    IF sample = Scalar THEN Ok(FALSE)
    ELSE IF ~(HasKey(sample, "download") /\ HasKey(sample, "upload")
                 /\ HasKey(sample, "ping"))
    THEN Ok(FALSE)
    ELSE validate_subfields(sample)

\* Variant: every record of the list is validated, not the first alone.
RECURSIVE validate_all(_)
validate_all(d) ==
    IF d = <<>> THEN Ok(TRUE)
    ELSE IF Raised(validate_sample(Head(d))) THEN validate_sample(Head(d))
    ELSE IF ~validate_sample(Head(d)).val THEN Ok(FALSE)
    ELSE validate_all(Tail(d))

validate_schema_all(d) ==
    IF d = <<>> \/ ~IsList(d) THEN Ok(FALSE) ELSE validate_all(d)

\* validate_schema looks at the first record only.
validate_schema(d) ==
    IF d = <<>> \/ ~IsList(d) THEN Ok(FALSE)
    ELSE validate_sample(d[1])

\* ------------------------------------------------------ reporting/plotter.py
\* The values of a list of results, or the first exception among them.
Collect(results) ==
    IF FirstRaised(results) # "" THEN Raise(FirstRaised(results))
    ELSE Ok([i \in 1..Len(results) |-> results[i].val])

\* (ts - start_time).total_seconds() / 60
minutes_since(ts, start_time) ==
    IF Raised(datetime_sub(ts, start_time)) THEN datetime_sub(ts, start_time)
    ELSE Ok(Rat(datetime_sub(ts, start_time).val, 60))

\* Lines 29-37: the sequence numbers of the download series when the
\* analysis has no timestamps, else the minutes since the first timestamp.
plot_timestamps(timestamps, metrics) ==
    IF timestamps = <<>>
    THEN Ok([i \in 1..Len(metrics.download) |-> R(i - 1)])
    ELSE Collect([i \in 1..Len(timestamps) |->
                     minutes_since(timestamps[i], timestamps[1])])

\* time_series[filename] = {...} (lines 39-44)
time_series_entry(item, timestamps) ==
    IF Raised(timestamps) THEN timestamps
    ELSE Ok([filename |-> item.filename,
             timestamps |-> timestamps.val,
             download_speeds |-> item.metrics.download,
             upload_speeds |-> item.metrics.upload,
             latencies |-> item.metrics.latency])

\* The dict keyed by filename is kept as the list of its entries, in the
\* order of the analyses.
extract_time_series_data(analyses) ==
    Collect([i \in 1..Len(analyses) |->
                time_series_entry(analyses[i],
                    plot_timestamps(analyses[i].timestamps, analyses[i].metrics))])

\* ------------------------------------------------ reporting/html_reporter.py
\* reports/index.html.  A text of links is the sequence of the links in it;
\* of the rest of the page the model keeps the values the function computes.
\* NoFile is the directory without the file.
NoFile == [exists |-> FALSE]

\* new_link (lines 210-214): the text of one link.
new_link(call, timestamp) ==
    <<[href |-> call.report_filename,
       title |-> call.report_title,
       description |-> call.report_description,
       generated |-> timestamp]>>

\* Lines 193-205: the text between the two markers, stripped, as the one
\* element of the list when it is not empty.
existing_links(index) ==
    IF ~index.exists THEN <<>>
    ELSE IF index.links_html # <<>> THEN <<index.links_html>> ELSE <<>>

\* Variant: the new link is put after the existing ones.
all_links_appended(link, existing) == existing \o <<link>>

\* all_links = [new_link] + existing_links
all_links(link, existing) == <<link>> \o existing

\* "\n".join(all_links)
RECURSIVE Join(_)
Join(texts) == IF texts = <<>> THEN <<>> ELSE Head(texts) \o Join(Tail(texts))

\* report_title.split()[0], the title being the sequence of its words
first_word(report_title) ==
    IF report_title = <<>> THEN Raise("IndexError") ELSE Ok(report_title[1])

\* index_content (lines 217-262), given all_links and the first word.
index_content(timestamp, links, latest) ==
    IF Raised(latest) THEN latest
    ELSE Ok([exists |-> TRUE,
             total_reports |-> Len(links),
             latest |-> latest.val,
             updated |-> timestamp,
             links_html |-> Join(links)])

\* The file update_reports_index writes over index, called with call at the
\* time timestamp.
update_reports_index(index, call, timestamp) ==
    index_content(timestamp,
                  all_links(new_link(call, timestamp), existing_links(index)),
                  first_word(call.report_title))

\* --------------------------------- examples/StarLinkMini/speed_analysis.py
\* The script that holds everything in one file.  Its rank_datasets,
\* calculate_consistency_metrics, calculate_heuristic_score and
\* extract_time_series_data are those of the package, line for line.
\* A str passed where a dict is expected is [str |-> s].
Str(s) == [str |-> s]
IsStr(x) == DOMAIN x = {"str"}

\* Lines 98-101.
has_dir_info(dir_info) ==
    IF dir_info.empty THEN FALSE
    ELSE dir_info.primary_direction # 0 \/ dir_info.primary_tilt # 0

\* format_dataset_name (lines 89-105): analysis["filename"] raises TypeError
\* when analysis is a str.  The name is kept with the case asked for and
\* the orientation shown.
format_dataset_name(item, case) ==
    IF IsStr(item) THEN Raise("TypeError")
    ELSE Ok([base_name |-> item.filename,
             case |-> case,
             orientation |->
                 IF has_dir_info(item.directional_info)
                 THEN <<item.directional_info.primary_direction,
                        item.directional_info.primary_tilt>>
                 ELSE <<>>])

\* The Champion card of line 1306: format_dataset_name is given the file
\* name of the first place of the heuristic ranking.
champion(ranked) ==
    IF Raised(ranked) THEN ranked
    ELSE IF ranked.val.heuristic = <<>> THEN Raise("IndexError")
    ELSE format_dataset_name(Str(ranked.val.heuristic[1][1]), "upper")

\* The report file of the reports directory (lines 1265-1266).
ReportPath == [bound |-> TRUE, path |-> "reports/comprehensive_analysis.html"]

\* generate_html_report (lines 1257-1451): the first part of the page holds
\* the Champion card; the path is returned once the page and the index are
\* written.
monolith_html_report(analyses) ==
    IF Raised(champion(rank_datasets(analyses)))
    THEN Raise(champion(rank_datasets(analyses)).exc)
    ELSE Ok(ReportPath)

\* The local report_file before line 1619 has bound it.
Unbound == [bound |-> FALSE]

\* return report_file (line 1631)
return_local(local) ==
    IF local.bound THEN Ok(local.path) ELSE Raise("UnboundLocalError")

\* ------------------------------------- email/interpolate_encourage_email.py
\* A text is the sequence of its pieces.  A piece is a literal text, the
\* href attribute of a share link (the platform it leads to, the referral
\* code and the share text in its URL), or one of the places the regular
\* expressions of lines 143-170 match (with the numbers shown there).
Lit(s) == [kind |-> "lit", name |-> s, code |-> "", text |-> "", nums |-> <<>>]
Href(platform, code, text) ==
    [kind |-> "href", name |-> platform, code |-> code, text |-> text, nums |-> <<>>]
Dynamic(name, nums) ==
    [kind |-> "dynamic", name |-> name, code |-> "", text |-> "", nums |-> nums]

\* SITE_URL, and the other pieces of the links
SITE_URL == Lit("https://nstcg.org")
SurveyRef == Lit("/survey?ref=")
RootRef == Lit("/?ref=")
Placeholder == Lit("{{user_referral_code}}")

\* generate_share_url(referral_code), no platform given (lines 43-48)
generate_share_url(referral_code) == <<SITE_URL, RootRef, Lit(referral_code)>>

\* generate_share_urls (lines 50-71): the href of the share link of a
\* platform; an empty share text is replaced by the default one.
generate_share_urls(platform, referral_code, share_text) ==
    Href(platform, referral_code, IF share_text = "" THEN "default" ELSE share_text)

\* str.replace(old, new): every occurrence, from the left, none overlapping.
RECURSIVE replace(_, _, _)
replace(text, old, new) ==
    IF Len(text) < Len(old) THEN text
    ELSE IF SubSeq(text, 1, Len(old)) = old
         THEN new \o replace(SubSeq(text, Len(old) + 1, Len(text)), old, new)
         ELSE <<Head(text)>> \o replace(Tail(text), old, new)

\* re.sub(pattern, repl, text, count=count), the pattern matching the pieces
\* of the kind and name given; count = 0 replaces every match.
RECURSIVE re_sub(_, _, _, _, _, _)
re_sub(kind, name, repl, text, count, done) ==
    IF text = <<>> \/ (count # 0 /\ done = count) THEN text
    ELSE IF Head(text).kind = kind /\ Head(text).name = name
         THEN <<repl>> \o re_sub(kind, name, repl, Tail(text), count, done + 1)
         ELSE <<Head(text)>> \o re_sub(kind, name, repl, Tail(text), count, done)

\* The href of one platform replaced in the first count share links of it.
share_link(platform, text, referral_code, share_text, count) ==
    re_sub("href", platform,
           generate_share_urls(platform, referral_code, share_text), text, count, 0)

\* Lines 98-103: the placeholders, then the referral link.
referral_links(text, referral_code) ==
    replace(replace(text, <<Placeholder>>, <<Lit(referral_code)>>),
            <<SITE_URL, SurveyRef, Placeholder>>,
            generate_share_url(referral_code))

\* Lines 105-133: the share buttons and icons, in the order of the code.
share_links(text, referral_code, share_text) ==
    share_link("linkedin",
        share_link("whatsapp",
            share_link("twitter",
                share_link("facebook",
                    share_link("email",
                        share_link("sms",
                            share_link("whatsapp", text, referral_code, share_text, 1),
                            referral_code, share_text, 1),
                        referral_code, share_text, 1),
                    referral_code, share_text, 1),
                referral_code, share_text, 1),
            referral_code, share_text, 2),
        referral_code, share_text, 1)

\* percentage, in tenths as '.1f' shows it: count / target * 100 if target > 0
\* else 0
percentage(count, target) ==
    IF target > 0 THEN (count * 2000 + target) \div (2 * target) ELSE 0

\* Lines 136-163.
progress_of(text, count, target) ==
    re_sub("dynamic", "victory", Dynamic("victory", <<percentage(count, target)>>),
        re_sub("dynamic", "width", Dynamic("width", <<percentage(count, target)>>),
            re_sub("dynamic", "status",
                   Dynamic("status", <<count, target, target - count>>), text, 0, 0),
            1, 0),
        0, 0)

progress(text, user) ==
    IF HasKey(user, "response_count")
    THEN progress_of(text, user.response_count, Get(user, "target_count", 1000))
    ELSE text

\* Lines 165-171.
hours_remaining(text, user) ==
    IF HasKey(user, "hours_remaining")
    THEN re_sub("dynamic", "hours", Dynamic("hours", <<user.hours_remaining>>), text, 0, 0)
    ELSE text

\* Lines 89-173, given the referral code and the share text of lines 89-90.
interpolate_with(text, user, referral_code, share_text) ==
    hours_remaining(
        progress(share_links(referral_links(text, referral_code),
                             referral_code, share_text),
                 user),
        user)

\* EmailLinkInterpolator.interpolate(user_data)
interpolate(text, user) ==
    interpolate_with(text, user,
                     Get(user, "referral_code", "DEFAULTCODE"),
                     Get(user, "custom_share_text", ""))

\* ------------------------------------------------------------------ inputs
MetricKeys == {"download", "upload", "ping"}

\* The metric values of the generated records (Mbps, ms).
MetricValues == {R(0), R(1)}

\* The records that hold all three metric keys.
CompleteEntries == [MetricKeys -> MetricValues]

\* The records that lack exactly one metric key.
IncompleteEntries ==
    UNION {[MetricKeys \ {k} -> MetricValues] : k \in MetricKeys}

SeqsUpTo(S, n) == UNION {[1..k -> S] : k \in 0..n}

\* The datasets of the single-dataset specification: the non-empty record
\* lists (main returns before the core on an empty one).
Datasets == SeqsUpTo(CompleteEntries \cup IncompleteEntries, MaxRecords) \ {<<>>}

Entry(dl, ul, lat) == [download |-> R(dl), upload |-> R(ul), ping |-> R(lat)]

\* The fixture of three datasets A, B and C.
FixtureA == <<Entry(50, 10, 20)>>
FixtureB == <<Entry(100, 20, 10)>>
FixtureC == <<Entry(75, 15, 15)>>

\* What load_speed_data can hand to the batch loop: a dataset of one complete
\* record, a fixture dataset, a dataset whose first record lacks a key or
\* holds an integer beyond the range of float, or nothing (<<>> stands for
\* None and for an empty list alike, both falsy).
BatchDatasets ==
    {<<e>> : e \in CompleteEntries}
        \cup {FixtureA, FixtureB, FixtureC}
        \cup {<<>>, <<[download |-> R(1), upload |-> R(1)]>>,
              <<[download |-> HugeInt, upload |-> R(1), ping |-> R(1)]>>}

\* The files a directory scan can find.
BatchFiles ==
    {MissingFile, InvalidJsonFile, UndecodableFile}
        \cup {JsonFile(d) : d \in BatchDatasets}

\* The records that hold any of the three metric keys, none included.
AnyEntries == UNION {[K -> MetricValues] : K \in SUBSET MetricKeys}

\* Timestamp strings: with the Z of UTC, without an offset, and no date.
Stamp(t) == [iso |-> TRUE, t |-> t, aware |-> TRUE]
NaiveStamp(t) == [iso |-> TRUE, t |-> t, aware |-> FALSE]
BadStamp == [iso |-> FALSE, t |-> 0, aware |-> FALSE]

\* The record entry with the field k set to v.
With(entry, k, v) ==
    [x \in DOMAIN entry \cup {k} |-> IF x = k THEN v ELSE entry[x]]

\* Complete records with any of the two orientation fields.
OrientedEntries ==
    LET plain == Entry(1, 1, 1)
        directed == {plain} \cup {With(plain, "direction_degrees", d) : d \in {10, 20}}
    IN  directed \cup {With(e, "tilt", tl) : e \in directed, tl \in {30, 40}}

\* Records with a timestamp: complete ones with each kind of timestamp, and
\* one that lacks the ping key.
StampedEntries ==
    {With(Entry(1, 1, 1), "timestamp", ts) :
        ts \in {Stamp(0), Stamp(60), NaiveStamp(60), BadStamp}}
        \cup {With([download |-> R(1), upload |-> R(1)], "timestamp", Stamp(60))}

\* The record lists with orientation fields and timestamps.
RecordDatasets == SeqsUpTo(OrientedEntries \cup StampedEntries, MaxRecords) \ {<<>>}

\* Two complete records with timestamps, each with or without a UTC offset.
StampedPairs ==
    {<<With(Entry(1, 1, 1), "timestamp", first),
       With(Entry(1, 1, 1), "timestamp", last)>> :
        first \in {Stamp(0), NaiveStamp(0)}, last \in {Stamp(60), NaiveStamp(60)}}

\* The datasets the core is run on by itself: non-empty record lists of
\* complete and incomplete records, and the pairs of records with timestamps.
CoreDatasets == (SeqsUpTo(AnyEntries, MaxRecords - 1) \ {<<>>}) \cup StampedPairs

\* The files the --file option can name.
SingleFiles ==
    {MissingFile, InvalidJsonFile, UndecodableFile}
        \cup {JsonFile(d) :
                 d \in SeqsUpTo(CompleteEntries \cup IncompleteEntries, MaxRecords - 1)}

\* The command lines of the single-file mode: args.file stands for what is
\* found at the path given.
SingleFileArgs ==
    [file : SingleFiles, consistency : BOOLEAN, report : BOOLEAN, plots : BOOLEAN]

NoArgs ==
    [file |-> MissingFile, consistency |-> FALSE, report |-> FALSE, plots |-> FALSE]

\* The values a subfield of the first record can hold.
ValidationValues ==
    {R(1), NumericText(R(1)), Text, Null, HugeInt, NoSubfield, Scalar}

\* The first records validate_schema is tried on: objects with any of the
\* three keys, and a record that is no object.
Samples ==
    UNION {[K -> ValidationValues] : K \in SUBSET MetricKeys} \cup {Scalar}

\* The records that follow the first: a complete one, an empty object and
\* one that is no object.
LaterRecords == {Entry(1, 1, 1), <<>>, Scalar}

\* The JSON documents validate_schema is tried on.
ValidationDocuments ==
    {<<>>, NotAList}
        \cup {<<sample>> : sample \in Samples}
        \cup {<<sample, later>> : sample \in Samples, later \in LaterRecords}

\* The most calls of update_reports_index in one run of the model.
MaxCalls == 3

\* The calls html_reporter.py makes (lines 433-436 and 578-581): the report
\* of either kind, of 1 to MaxFiles datasets.
ConsistencyCall(n) ==
    [report_filename |-> "consistency_analysis.html",
     report_title |-> <<"Consistency", "Analysis">>,
     report_description |-> [text |-> "Stability analysis of", datasets |-> n]]

ComprehensiveCall(n) ==
    [report_filename |-> "comprehensive_analysis.html",
     report_title |-> <<"Comprehensive", "Analysis">>,
     report_description |-> [text |-> "Comprehensive analysis of", datasets |-> n]]

IndexCalls ==
    {ConsistencyCall(n) : n \in 1..MaxFiles} \cup {ComprehensiveCall(n) : n \in 1..MaxFiles}

\* The datasets of the valid files the script is run on: the fixtures, a
\* dataset of latency 0 and one whose second record lacks the ping key.
MonolithDatasets ==
    {FixtureA, FixtureB, <<Entry(1, 1, 0)>>,
     <<Entry(1, 1, 1), [download |-> R(1), upload |-> R(1)]>>}

\* The flags of present_comparative_analysis.
MonolithArgs ==
    [plots : BOOLEAN, consistency : BOOLEAN, report : BOOLEAN,
     consistency_report : BOOLEAN]

\* The most pieces of a template.
MaxTemplate == 3

\* The pieces a template is made of.
TemplatePieces ==
    {Lit("text"), SITE_URL, SurveyRef, Placeholder,
     Href("whatsapp", "", "old"), Href("sms", "", "old"), Href("facebook", "", "old"),
     Dynamic("status", <<1, 2, 1>>), Dynamic("width", <<500>>), Dynamic("hours", <<24>>)}

Templates == SeqsUpTo(TemplatePieces, MaxTemplate)

\* The user_data dicts: empty, with a referral code, with a share text, with
\* the counts of the example of main() (lines 195-203), and with a target of 0.
NoUser == [none |-> TRUE]
UserDatas ==
    {<<>>,
     [referral_code |-> "JOHBD7K9XYZ"],
     [referral_code |-> "JOHBD7K9XYZ", custom_share_text |-> "Please help"],
     [referral_code |-> "JOHBD7K9XYZ", response_count |-> 597,
      target_count |-> 1000, hours_remaining |-> 12],
     [referral_code |-> "JOHBD7K9XYZ", response_count |-> 597, target_count |-> 0]}

FileNames == <<"a.json", "b.json", "c.json", "d.json", "e.json">>

\* ------------------------------------------------------------------- state
VARIABLES
    data,            \* the record list loaded last
    analysis,        \* single dataset: the analysis of data, or None
    score,           \* single dataset: the heuristic score of analysis
    valid_analyses,  \* batch: the analyses of the valid files, in file order
    invalid_files,   \* batch: the names of the files skipped
    rankings,        \* batch: the result of rank_datasets, or None
    raised,          \* the exception that ended the run, "" when none
    pc,              \* the step taken last
    args,            \* single file: the parsed command line
    file_metrics,    \* single file: metrics of main.py line 156, or None
    analysis_obj,    \* single file: analysis_obj built last, or None
    file_consistency,\* single file: consistency of main.py line 182, or None
    processed,       \* batch: what was found at the files read so far
    validated,       \* validate_schema has returned True for data in this run
    core_ran,        \* extract_metrics has been executed on data in this run
    time_series,     \* plots: the result of extract_time_series_data, or None
    index_html,      \* reports/index.html, NoFile before it is written
    index_calls,     \* the update_reports_index calls that have returned
    report_file,     \* monolith: the local report_file, Unbound before bound
    template,        \* email: self.template of the interpolator
    user_data,       \* email: the user_data of the interpolate call
    content          \* email: the text interpolate returned, <<>> before

vars == <<data, analysis, score, valid_analyses, invalid_files, rankings, raised,
          pc, args, file_metrics, analysis_obj, file_consistency, processed,
          validated, core_ran, time_series, index_html, index_calls,
          report_file, template, user_data, content>>

\* The locals of the single-file mode.
fileVars == <<args, file_metrics, analysis_obj, file_consistency>>

\* The reports directory and the locals of the plots and of the monolith.
reportVars == <<time_series, index_html, index_calls, report_file>>

\* The fields and locals of the email interpolator.
emailVars == <<template, user_data, content>>

\* The state before main() has done anything, but for data and pc.
Blank ==
    /\ analysis = None
    /\ score = Zero
    /\ valid_analyses = <<>>
    /\ invalid_files = <<>>
    /\ rankings = None
    /\ raised = ""
    /\ file_metrics = None
    /\ analysis_obj = None
    /\ file_consistency = None
    /\ processed = <<>>
    /\ validated = FALSE
    /\ core_ran = FALSE
    /\ time_series = None
    /\ index_html = NoFile
    /\ index_calls = <<>>
    /\ report_file = Unbound
    /\ template = <<>>
    /\ user_data = NoUser
    /\ content = <<>>

\* ------------------------------------------- single dataset: the core in turn
Init ==
    /\ data \in Datasets
    /\ args = NoArgs
    /\ Blank
    /\ pc = "loaded"

\* analysis_result = analysis.analyze_file_silent(json_file, data)
AnalyzeResult(r) ==
    /\ raised' = r.exc
    /\ analysis' = IF Raised(r) THEN analysis ELSE r.val
    /\ pc' = "analyzed"

Analyze ==
    /\ pc = "loaded"
    /\ AnalyzeResult(analyze_file_silent(FileNames[1], data))
    /\ core_ran' = TRUE
    /\ UNCHANGED <<data, score, valid_analyses, invalid_files, rankings>>
    /\ UNCHANGED <<fileVars, processed, validated>>
    /\ UNCHANGED <<reportVars, emailVars>>

\* Variant: the metric series of the item are emptied along the way.
attach_consistency_clearing(item, consistency) ==
    [k \in DOMAIN item \cup {"consistency"} |->
        IF k = "consistency" THEN consistency
        ELSE IF k = "metrics"
             THEN [download |-> <<>>, upload |-> <<>>, latency |-> <<>>]
             ELSE item[k]]

\* item["consistency"] = consistency
attach_consistency(item, consistency) ==
    [k \in DOMAIN item \cup {"consistency"} |->
        IF k = "consistency" THEN consistency ELSE item[k]]

AttachConsistencyResult(r) ==
    /\ raised' = r.exc
    /\ analysis' = IF Raised(r) THEN analysis
                   ELSE attach_consistency(analysis, r.val)
    /\ pc' = "consistent"

\* item["consistency"] = analysis.calculate_consistency_metrics(item)
AttachConsistency ==
    /\ pc = "analyzed"
    /\ raised = ""
    /\ AttachConsistencyResult(calculate_consistency_metrics(analysis))
    /\ UNCHANGED <<data, score, valid_analyses, invalid_files, rankings>>
    /\ UNCHANGED <<fileVars, processed, validated, core_ran>>
    /\ UNCHANGED <<reportVars, emailVars>>

ScoreResult(r) ==
    /\ raised' = r.exc
    /\ score' = r.val
    /\ pc' = "scored"

\* calculate_heuristic_score(a), as rank_datasets calls it for each analysis
Score ==
    /\ pc = "consistent"
    /\ raised = ""
    /\ ScoreResult(calculate_heuristic_score(analysis))
    /\ UNCHANGED <<data, analysis, valid_analyses, invalid_files, rankings>>
    /\ UNCHANGED <<fileVars, processed, validated, core_ran>>
    /\ UNCHANGED <<reportVars, emailVars>>

Next == Analyze \/ AttachConsistency \/ Score

Spec == Init /\ [][Next]_vars

\* ------------------------------- the core by itself, rank_datasets included
CoreInit ==
    /\ data \in CoreDatasets
    /\ args = NoArgs
    /\ Blank
    /\ pc = "loaded"

RankOneResult(r) ==
    /\ raised' = r.exc
    /\ rankings' = IF Raised(r) THEN rankings ELSE r.val
    /\ pc' = "ranked_one"

\* rank_datasets on the list of the one analysis
RankOne ==
    /\ pc = "scored"
    /\ raised = ""
    /\ RankOneResult(rank_datasets(<<analysis>>))
    /\ UNCHANGED <<data, analysis, score, valid_analyses, invalid_files>>
    /\ UNCHANGED <<fileVars, processed, validated, core_ran>>
    /\ UNCHANGED <<reportVars, emailVars>>

CoreNext == Analyze \/ AttachConsistency \/ Score \/ RankOne

SpecCore == CoreInit /\ [][CoreNext]_vars

\* ---------------------- one dataset with orientation fields and timestamps
RecordsInit ==
    /\ data \in RecordDatasets
    /\ args = NoArgs
    /\ Blank
    /\ pc = "loaded"

ExtractedTimeSeries(r) ==
    /\ raised' = r.exc
    /\ time_series' = IF Raised(r) THEN time_series ELSE r.val
    /\ pc' = "extracted"

\* time_series_data = plotter.extract_time_series_data([analysis_result])
ExtractTimeSeries ==
    /\ pc = "analyzed"
    /\ raised = ""
    /\ ExtractedTimeSeries(extract_time_series_data(<<analysis>>))
    /\ UNCHANGED <<data, analysis, score, valid_analyses, invalid_files, rankings>>
    /\ UNCHANGED <<fileVars, processed, validated, core_ran>>
    /\ UNCHANGED <<index_html, index_calls, report_file, emailVars>>

RecordsNext == Analyze \/ ExtractTimeSeries

SpecRecords == RecordsInit /\ [][RecordsNext]_vars

\* --------------------------------------- the index of the reports directory
IndexInit ==
    /\ data = <<>>
    /\ args = NoArgs
    /\ Blank
    /\ pc = "index"

\* datetime.now() of the call: the clock does not run backwards, and two
\* calls can fall into the same second.
Now == IF index_calls = <<>> THEN 0 ELSE index_calls[Len(index_calls)].timestamp

\* The file is written and the call returns, unless the call raised.
IndexWritten(call, timestamp, r) ==
    /\ raised' = r.exc
    /\ index_html' = IF Raised(r) THEN index_html ELSE r.val
    /\ index_calls' = IF Raised(r) THEN index_calls
                      ELSE Append(index_calls, [call |-> call, timestamp |-> timestamp])

\* update_reports_index(reports_dir, output_file, title, report_desc)
UpdateIndex ==
    /\ pc = "index"
    /\ raised = ""
    /\ Len(index_calls) < MaxCalls
    /\ \E call \in IndexCalls, timestamp \in {Now, Now + 1} :
           IndexWritten(call, timestamp,
                        update_reports_index(index_html, call, timestamp))
    /\ UNCHANGED <<data, analysis, score, valid_analyses, invalid_files, rankings, pc>>
    /\ UNCHANGED <<fileVars, processed, validated, core_ran>>
    /\ UNCHANGED <<time_series, report_file, emailVars>>

IndexNext == UpdateIndex

SpecIndex == IndexInit /\ [][IndexNext]_vars

\* -------------------- the one-file script: present_comparative_analysis
\* The datasets of 1 to MaxFiles valid files.
MonolithAnalyses ==
    UNION {[1..n -> MonolithDatasets] : n \in 1..MaxFiles}

\* The state at the call of line 1731: the files have been analysed.
MonolithInit ==
    /\ data = <<>>
    /\ args \in MonolithArgs
    /\ \E ds \in MonolithAnalyses :
           valid_analyses =
               [i \in 1..Len(ds) |-> analyze_file_silent(FileNames[i], ds[i]).val]
    /\ analysis = None
    /\ score = Zero
    /\ invalid_files = <<>>
    /\ rankings = None
    /\ raised = ""
    /\ file_metrics = None
    /\ analysis_obj = None
    /\ file_consistency = None
    /\ processed = <<>>
    /\ validated = TRUE
    /\ core_ran = TRUE
    /\ time_series = None
    /\ index_html = NoFile
    /\ index_calls = <<>>
    /\ report_file = Unbound
    /\ template = <<>>
    /\ user_data = NoUser
    /\ content = <<>>
    /\ pc = "present"

\* Lines 1462-1464, given the consistency summaries: each is attached to an
\* analysis that has none, then the analyses are ranked (line 1475).
MonolithAttach(cs) ==
    IF FirstRaised(cs) # ""
    THEN /\ raised' = FirstRaised(cs)
         /\ UNCHANGED <<valid_analyses, rankings>>
    ELSE /\ valid_analyses' =
                [i \in 1..Len(valid_analyses) |->
                    IF "consistency" \in DOMAIN valid_analyses[i]
                    THEN valid_analyses[i]
                    ELSE attach_consistency(valid_analyses[i], cs[i].val)]
         /\ raised' = rank_datasets(valid_analyses').exc
         /\ rankings' = IF Raised(rank_datasets(valid_analyses')) THEN rankings
                        ELSE rank_datasets(valid_analyses').val

\* Lines 1462-1568: the consistency summaries, the rankings and the tables
\* made of them.
MonolithRank ==
    /\ pc = "present"
    /\ raised = ""
    /\ MonolithAttach([i \in 1..Len(valid_analyses) |->
                          calculate_consistency_metrics(valid_analyses[i])])
    /\ pc' = "ranked"
    /\ UNCHANGED <<data, analysis, score, invalid_files>>
    /\ UNCHANGED <<fileVars, processed, validated, core_ran>>
    /\ UNCHANGED <<reportVars, emailVars>>

\* if show_plots: (lines 1571-1573)
MonolithPlots ==
    /\ pc = "ranked"
    /\ raised = ""
    /\ args.plots
    /\ raised' = extract_time_series_data(valid_analyses).exc
    /\ time_series' = IF Raised(extract_time_series_data(valid_analyses))
                      THEN time_series
                      ELSE extract_time_series_data(valid_analyses).val
    /\ pc' = "plotted"
    /\ UNCHANGED <<data, analysis, score, valid_analyses, invalid_files, rankings>>
    /\ UNCHANGED <<fileVars, processed, validated, core_ran>>
    /\ UNCHANGED <<index_html, index_calls, report_file, emailVars>>

\* The plots are behind: the winner is announced (lines 1576-1603).
MonolithPlotsDone == pc = "plotted" \/ (pc = "ranked" /\ ~args.plots)

\* report_file = generate_html_report(analyses), which ends with the update
\* of the index (line 1449).
MonolithReported(r) ==
    /\ report_file' = IF Raised(r) THEN report_file ELSE r.val
    /\ IF Raised(r)
       THEN /\ raised' = r.exc
            /\ UNCHANGED <<index_html, index_calls>>
       ELSE IndexWritten(ComprehensiveCall(Len(valid_analyses)), Now + 1,
                update_reports_index(index_html,
                    ComprehensiveCall(Len(valid_analyses)), Now + 1))

\* if generate_report: (lines 1606-1629)
MonolithReport ==
    /\ MonolithPlotsDone
    /\ raised = ""
    /\ args.report
    /\ MonolithReported(monolith_html_report(valid_analyses))
    /\ pc' = "reported"
    /\ UNCHANGED <<data, analysis, score, valid_analyses, invalid_files, rankings>>
    /\ UNCHANGED <<fileVars, processed, validated, core_ran>>
    /\ UNCHANGED <<time_series, emailVars>>

\* return report_file (line 1631)
MonolithReturn ==
    /\ pc = "reported" \/ (MonolithPlotsDone /\ ~args.report)
    /\ raised = ""
    /\ raised' = return_local(report_file).exc
    /\ pc' = "returned"
    /\ UNCHANGED <<data, analysis, score, valid_analyses, invalid_files, rankings>>
    /\ UNCHANGED <<fileVars, processed, validated, core_ran>>
    /\ UNCHANGED <<reportVars, emailVars>>

MonolithNext == MonolithRank \/ MonolithPlots \/ MonolithReport \/ MonolithReturn

SpecMonolith == MonolithInit /\ [][MonolithNext]_vars

\* ------------------------------------------------- the email interpolator
\* The interpolator has read its template (lines 27-41).
EmailInit ==
    /\ data = <<>>
    /\ args = NoArgs
    /\ analysis = None
    /\ score = Zero
    /\ valid_analyses = <<>>
    /\ invalid_files = <<>>
    /\ rankings = None
    /\ raised = ""
    /\ file_metrics = None
    /\ analysis_obj = None
    /\ file_consistency = None
    /\ processed = <<>>
    /\ validated = FALSE
    /\ core_ran = FALSE
    /\ time_series = None
    /\ index_html = NoFile
    /\ index_calls = <<>>
    /\ report_file = Unbound
    /\ template \in Templates
    /\ user_data = NoUser
    /\ content = <<>>
    /\ pc = "template"

\* content = self.interpolate(user_data)
Interpolate ==
    /\ pc = "template"
    /\ \E user \in UserDatas :
           /\ user_data' = user
           /\ content' = interpolate(template, user)
    /\ pc' = "interpolated"
    /\ UNCHANGED <<data, analysis, score, valid_analyses, invalid_files, rankings, raised>>
    /\ UNCHANGED <<fileVars, processed, validated, core_ran>>
    /\ UNCHANGED <<reportVars, template>>

EmailNext == Interpolate

SpecEmail == EmailInit /\ [][EmailNext]_vars

\* ------------------------------------------------- batch mode: main() --all
BatchInit ==
    /\ data = <<>>
    /\ args = NoArgs
    /\ Blank
    /\ pc = "files"

\* valid_analyses.append(analysis_result), under `if analysis_result:`
BatchAppend(r) ==
    /\ raised' = r.exc
    /\ pc' = "files"
    /\ valid_analyses' = IF Raised(r) \/ r.val = None THEN valid_analyses
                         ELSE Append(valid_analyses, r.val)
    /\ UNCHANGED invalid_files

\* Lines 78-82, given the value of `data and validate_schema(data)`: the
\* core runs only after validate_schema has returned True.
BatchFileValidated(json_file, d, valid) ==
    IF Raised(valid)
    THEN /\ raised' = valid.exc
         /\ validated' = FALSE
         /\ core_ran' = FALSE
         /\ UNCHANGED <<valid_analyses, invalid_files, pc>>
    ELSE /\ validated' = valid.val
         /\ core_ran' = valid.val
         /\ IF valid.val
            THEN BatchAppend(analyze_file_silent(json_file, d))
            ELSE /\ invalid_files' = Append(invalid_files, json_file)
                 /\ UNCHANGED <<valid_analyses, raised, pc>>

\* Line 77: validate_schema is called on a true data only.
BatchFileLoaded(json_file, d) ==
    /\ data' = d
    /\ BatchFileValidated(json_file, d,
           IF d # <<>> THEN validate_schema(d) ELSE Ok(FALSE))

\* Line 76, given the result of load_speed_data.
BatchFileRead(json_file, loaded) ==
    IF Raised(loaded)
    THEN /\ raised' = loaded.exc
         /\ UNCHANGED <<data, valid_analyses, invalid_files, pc, validated, core_ran>>
    ELSE BatchFileLoaded(json_file, loaded.val)

\* One iteration of the loop over json_files (main.py lines 74-82).
BatchFile ==
    /\ pc = "files"
    /\ raised = ""
    /\ Len(processed) < MaxFiles
    /\ \E f \in BatchFiles :
           /\ processed' = Append(processed, f)
           /\ BatchFileRead(FileNames[Len(processed) + 1], load_speed_data(f))
    /\ UNCHANGED <<analysis, score, rankings, fileVars>>
    /\ UNCHANGED <<reportVars, emailVars>>

\* if not valid_analyses: return (lines 84-86); no file at all returns at 64-68.
BatchExit ==
    /\ pc = "files"
    /\ raised = ""
    /\ valid_analyses = <<>>
    /\ pc' = "exit"
    /\ UNCHANGED <<data, analysis, score, valid_analyses, invalid_files, rankings, raised>>
    /\ UNCHANGED <<fileVars, processed, validated, core_ran>>
    /\ UNCHANGED <<reportVars, emailVars>>

BatchRanked(r) ==
    /\ raised' = r.exc
    /\ rankings' = IF Raised(r) THEN rankings ELSE r.val
    /\ pc' = "ranked"

\* Lines 96-99, given the consistency summaries of all analyses: each is
\* attached to its analysis, then the analyses are ranked.
BatchAttach(cs) ==
    IF FirstRaised(cs) # ""
    THEN /\ raised' = FirstRaised(cs)
         /\ pc' = "ranked"
         /\ UNCHANGED <<valid_analyses, rankings>>
    ELSE /\ valid_analyses' =
                [i \in 1..Len(valid_analyses) |->
                    attach_consistency(valid_analyses[i], cs[i].val)]
         /\ BatchRanked(rank_datasets(valid_analyses'))

BatchRank ==
    /\ pc = "files"
    /\ raised = ""
    /\ valid_analyses # <<>>
    /\ BatchAttach([i \in 1..Len(valid_analyses) |->
                       calculate_consistency_metrics(valid_analyses[i])])
    /\ UNCHANGED <<data, analysis, score, invalid_files>>
    /\ UNCHANGED <<fileVars, processed, validated, core_ran>>
    /\ UNCHANGED <<reportVars, emailVars>>

BatchNext == BatchFile \/ BatchExit \/ BatchRank

SpecBatch == BatchInit /\ [][BatchNext]_vars

\* ------------------------------------------- validate_schema by itself
ValidateInit ==
    /\ data \in ValidationDocuments
    /\ args = NoArgs
    /\ Blank
    /\ pc = "document"

Validated(valid) ==
    /\ raised' = valid.exc
    /\ validated' = IF Raised(valid) THEN validated ELSE valid.val
    /\ pc' = "validated"

\* data_loader.validate_schema(data)
Validate ==
    /\ pc = "document"
    /\ Validated(validate_schema(data))
    /\ UNCHANGED <<data, analysis, score, valid_analyses, invalid_files, rankings>>
    /\ UNCHANGED <<fileVars, processed, core_ran>>
    /\ UNCHANGED <<reportVars, emailVars>>

ValidateNext == Validate

SpecValidate == ValidateInit /\ [][ValidateNext]_vars

\* ---------------------------------------------- single-file mode: main() --file
FileInit ==
    /\ data = <<>>
    /\ args \in SingleFileArgs
    /\ Blank
    /\ pc = "start"

\* if not data: return (lines 151-153)
FileLoaded(loaded) ==
    /\ raised' = loaded.exc
    /\ data' = loaded.val
    /\ pc' = IF Raised(loaded) \/ loaded.val = <<>> THEN "exit" ELSE "loaded"

\* data = data_loader.load_speed_data(args.file)
FileLoad ==
    /\ pc = "start"
    /\ FileLoaded(load_speed_data(args.file))
    /\ UNCHANGED <<analysis, score, valid_analyses, invalid_files, rankings>>
    /\ UNCHANGED <<fileVars, processed, validated, core_ran>>
    /\ UNCHANGED <<reportVars, emailVars>>

\* Lines 157-166, given the metrics of line 156.  results are the values the
\* panels compute, in this order: directional_info, the three averages of
\* create_summary_panel, the three statistics of create_statistics_table.
FileShown(results) ==
    /\ raised' = FirstRaised(results)
    /\ pc' = "shown"

FileShowMetrics(metrics) ==
    /\ file_metrics' = metrics
    /\ FileShown(<<get_directional_info(data),
                   mean_or_zero(metrics.download),
                   mean_or_zero(metrics.upload),
                   mean_or_zero(metrics.latency),
                   calculate_statistics(metrics.download),
                   calculate_statistics(metrics.upload),
                   calculate_statistics(metrics.latency)>>)

\* Lines 155-166: the metrics are extracted from the loaded data as it is
\* and shown.
FileShow ==
    /\ pc = "loaded"
    /\ raised = ""
    /\ FileShowMetrics(extract_metrics(data))
    /\ core_ran' = TRUE
    /\ UNCHANGED <<data, analysis, score, valid_analyses, invalid_files, rankings>>
    /\ UNCHANGED <<args, analysis_obj, file_consistency, processed, validated>>
    /\ UNCHANGED <<reportVars, emailVars>>

\* sum(series) / len(series), for the three series in the order written
file_averages(metrics) ==
    <<PyDiv(PySum(metrics.download), R(Len(metrics.download))),
      PyDiv(PySum(metrics.upload), R(Len(metrics.upload))),
      PyDiv(PySum(metrics.latency), R(Len(metrics.latency)))>>

\* The dict of lines 173-181.
consistency_analysis_obj(json_file, metrics, averages) ==
    IF FirstRaised(averages) # "" THEN Raise(FirstRaised(averages))
    ELSE Ok([none |-> FALSE,
             filename |-> json_file,
             metrics |-> metrics,
             averages |-> [download |-> averages[1].val,
                           upload |-> averages[2].val,
                           latency |-> averages[3].val]])

FileConsistencyComputed(r) ==
    /\ raised' = r.exc
    /\ file_consistency' = IF Raised(r) THEN file_consistency ELSE r.val

\* Line 182, given the analysis_obj of lines 173-181.
FileConsistencyOf(obj) ==
    IF Raised(obj)
    THEN /\ raised' = obj.exc
         /\ UNCHANGED <<analysis_obj, file_consistency>>
    ELSE /\ analysis_obj' = obj.val
         /\ FileConsistencyComputed(calculate_consistency_metrics(obj.val))

\* if args.consistency: (lines 168-198)
FileConsistency ==
    /\ pc = "shown"
    /\ raised = ""
    /\ args.consistency
    /\ FileConsistencyOf(
           consistency_analysis_obj(FileNames[1], file_metrics,
                                    file_averages(file_metrics)))
    /\ pc' = "consistency"
    /\ UNCHANGED <<data, analysis, score, valid_analyses, invalid_files, rankings>>
    /\ UNCHANGED <<args, file_metrics, processed, validated, core_ran>>
    /\ UNCHANGED <<reportVars, emailVars>>

\* min, max and statistics.median of the three series, as lines 214-228
\* evaluate them.
file_statistics(metrics) ==
    <<PyMin(metrics.download), PyMax(metrics.download), median(metrics.download),
      PyMin(metrics.upload), PyMax(metrics.upload), median(metrics.upload),
      PyMin(metrics.latency), PyMax(metrics.latency), median(metrics.latency)>>

\* The dict of lines 205-230.  results are the three averages followed by
\* the nine statistics.
report_analysis_obj(json_file, entries, metrics, results) ==
    IF FirstRaised(results) # "" THEN Raise(FirstRaised(results))
    ELSE Ok([none |-> FALSE,
             filename |-> json_file,
             test_count |-> Len(entries),
             metrics |-> metrics,
             averages |-> [download |-> results[1].val,
                           upload |-> results[2].val,
                           latency |-> results[3].val],
             download_stats |-> [min |-> results[4].val,
                                 max |-> results[5].val,
                                 median |-> results[6].val],
             upload_stats |-> [min |-> results[7].val,
                               max |-> results[8].val,
                               median |-> results[9].val],
             latency_stats |-> [min |-> results[10].val,
                                max |-> results[11].val,
                                median |-> results[12].val],
             duration |-> [known |-> TRUE, span |-> Len(entries)]])

\* generate_html_report([analysis_obj], {}, ...): with no rankings, the one
\* value it computes is the heuristic score of the analysis.
FileReportWritten(r) ==
    /\ score' = r.val
    /\ IF Raised(r)
       THEN /\ raised' = r.exc
            /\ UNCHANGED <<index_html, index_calls>>
       ELSE IndexWritten(ComprehensiveCall(1), Now + 1,
                         update_reports_index(index_html, ComprehensiveCall(1), Now + 1))

\* Lines 231-237, given the analysis_obj of lines 205-230.
FileReportOf(obj) ==
    IF Raised(obj)
    THEN /\ raised' = obj.exc
         /\ UNCHANGED <<analysis_obj, score, index_html, index_calls>>
    ELSE /\ analysis_obj' = obj.val
         /\ FileReportWritten(calculate_heuristic_score(obj.val))

\* if args.report: (lines 200-246)
FileReport ==
    /\ pc = "consistency" \/ (pc = "shown" /\ ~args.consistency)
    /\ raised = ""
    /\ args.report
    /\ FileReportOf(
           report_analysis_obj(FileNames[1], data, file_metrics,
                               file_averages(file_metrics) \o file_statistics(file_metrics)))
    /\ pc' = "report"
    /\ UNCHANGED <<data, analysis, valid_analyses, invalid_files, rankings>>
    /\ UNCHANGED <<args, file_metrics, file_consistency, processed, validated, core_ran>>
    /\ UNCHANGED <<time_series, report_file, emailVars>>

FileAssessed(avg_download) ==
    /\ raised' = avg_download.exc
    /\ pc' = "assessed"

\* The performance rating (lines 248-266).
FileAssess ==
    /\ \/ pc = "report"
       \/ pc = "consistency" /\ ~args.report
       \/ pc = "shown" /\ ~args.consistency /\ ~args.report
    /\ raised = ""
    /\ FileAssessed(mean_or_zero(file_metrics.download))
    /\ UNCHANGED <<data, analysis, score, valid_analyses, invalid_files, rankings>>
    /\ UNCHANGED <<fileVars, processed, validated, core_ran>>
    /\ UNCHANGED <<reportVars, emailVars>>

\* Lines 273-279, given the analysis: the time series are extracted from a
\* true analysis_result only.
FilePlotted(r) ==
    /\ analysis' = IF Raised(r) THEN analysis ELSE r.val
    /\ pc' = "plotted"
    /\ IF Raised(r) \/ r.val = None
       THEN /\ raised' = r.exc
            /\ UNCHANGED time_series
       ELSE /\ raised' = extract_time_series_data(<<r.val>>).exc
            /\ time_series' = IF Raised(extract_time_series_data(<<r.val>>))
                              THEN time_series
                              ELSE extract_time_series_data(<<r.val>>).val

\* if args.plots: (lines 268-283); the analysis is only made when the
\* plotext package can be imported.
FilePlots ==
    /\ pc = "assessed"
    /\ raised = ""
    /\ args.plots
    /\ \E PLOTEXT_AVAILABLE \in BOOLEAN :
           IF PLOTEXT_AVAILABLE
           THEN FilePlotted(analyze_file_silent(FileNames[1], data))
           ELSE /\ pc' = "plotted"
                /\ UNCHANGED <<raised, analysis, time_series>>
    /\ UNCHANGED <<data, score, valid_analyses, invalid_files, rankings>>
    /\ UNCHANGED <<fileVars, processed, validated, core_ran>>
    /\ UNCHANGED <<index_html, index_calls, report_file, emailVars>>

FileNext ==
    FileLoad \/ FileShow \/ FileConsistency \/ FileReport \/ FileAssess \/ FilePlots

SpecFile == FileInit /\ [][FileNext]_vars

\* ------------------------------------------------------------- properties
Metrics == {"download", "upload", "latency"}

HasAnalysis == analysis # None

StatsOf(a, m) ==
    CASE m = "download" -> a.download_stats
      [] m = "upload" -> a.upload_stats
      [] m = "latency" -> a.latency_stats

ZeroStatistics == [min |-> Zero, median |-> Zero, max |-> Zero]

CountLt(S, x) == Cardinality({i \in 1..Len(S) : RLt(S[i], x)})
CountLe(S, x) == Cardinality({i \in 1..Len(S) : RLe(S[i], x)})

\* The k-th smallest value of S, by counting: independent of the order of S.
KthSmallest(S, k) ==
    CHOOSE x \in SeqToSet(S) : CountLt(S, x) < k /\ k <= CountLe(S, x)

AllIdentical(S) == \A i \in 1..Len(S) : S[i] = S[1]

\* C1: extract_metrics never includes a record partially: the download,
\* upload and latency series all have the length of the number of complete
\* records of the input.
C1_NoPartialInclusion ==
    HasAnalysis =>
        LET complete == Cardinality({i \in 1..Len(data) : DOMAIN data[i] = MetricKeys})
        IN  /\ Len(analysis.metrics.download) = complete
            /\ Len(analysis.metrics.upload) = complete
            /\ Len(analysis.metrics.latency) = complete

\* C4: calculate_heuristic_score returns 0 and raises nothing whenever the
\* average latency is 0, whatever the average download and upload are.
C4_ZeroLatencyScoresZero ==
    (pc = "scored" /\ analysis.averages.latency = Zero) =>
        (raised = "" /\ score = Zero)

C4_Witness ==
    /\ pc = "scored"
    /\ raised = ""
    /\ analysis.averages.latency = Zero
    /\ analysis.averages.download # Zero
    /\ analysis.averages.upload # Zero

\* C5: for a non-zero average latency the heuristic score is
\* (avg_download + avg_upload) / avg_latency: score * avg_latency equals
\* avg_download + avg_upload.
C5_ScoreIsQuotient ==
    (pc = "scored" /\ analysis.averages.latency # Zero) =>
        /\ raised = ""
        /\ RMul(score, analysis.averages.latency)
               = RAdd(analysis.averages.download, analysis.averages.upload)

C5_Witness ==
    /\ pc = "scored"
    /\ raised = ""
    /\ analysis.averages.latency \notin {Zero, R(1)}
    /\ analysis.averages.download # Zero
    /\ analysis.averages.upload # Zero

\* C6: for every non-empty series S, calculate_statistics(S) has
\* min <= median <= max, and min and max are elements of S.
C6_MinMedianMax ==
    HasAnalysis =>
        \A m \in Metrics :
            LET S == analysis.metrics[m]
                st == StatsOf(analysis, m)
            IN  S # <<>> =>
                    /\ RLe(st.min, st.median)
                    /\ RLe(st.median, st.max)
                    /\ st.min \in SeqToSet(S)
                    /\ st.max \in SeqToSet(S)

C6_Witness ==
    /\ HasAnalysis
    /\ \E m \in Metrics :
           /\ Len(analysis.metrics[m]) >= 2
           /\ RLt(StatsOf(analysis, m).min, StatsOf(analysis, m).median)
           /\ RLt(StatsOf(analysis, m).median, StatsOf(analysis, m).max)

\* C7: calculate_statistics of an empty series returns min = 0, median = 0
\* and max = 0 and raises nothing.
C7_EmptySeriesZeros ==
    pc = "analyzed" =>
        \A m \in Metrics :
            extract_metrics(data)[m] = <<>> =>
                (raised = "" /\ StatsOf(analysis, m) = ZeroStatistics)

C7_Witness ==
    /\ pc = "analyzed"
    /\ raised = ""
    /\ \A m \in Metrics : analysis.metrics[m] = <<>>

\* C8: the median of calculate_statistics is the middle element of the
\* sorted series for an odd length and the average of its two middle
\* elements for an even length, whatever the order of the input.
C8_MedianOfSorted ==
    HasAnalysis =>
        \A m \in Metrics :
            LET S == analysis.metrics[m]
                n == Len(S)
            IN  S # <<>> =>
                    StatsOf(analysis, m).median =
                        IF n % 2 = 1 THEN KthSmallest(S, (n + 1) \div 2)
                        ELSE RQuot(RAdd(KthSmallest(S, n \div 2),
                                        KthSmallest(S, n \div 2 + 1)), R(2))

\* An odd series of three or more values whose middle element, in the order
\* given, is not its median.
C8_Witness ==
    /\ HasAnalysis
    /\ \E m \in Metrics :
           LET S == analysis.metrics[m]
           IN  /\ Len(S) >= 3
               /\ Len(S) % 2 = 1
               /\ S[(Len(S) + 1) \div 2] # StatsOf(analysis, m).median

\* C9: for an analysis with non-negative metric values every per-metric
\* stability score and the overall stability score lie in [0, 100].
C9_StabilityBounded ==
    (pc = "consistent" /\ raised = "") =>
        \A k \in Metrics \cup {"overall"} :
            /\ RLe(Zero, analysis.consistency.stability_scores[k])
            /\ RLe(analysis.consistency.stability_scores[k], Hundred)

\* One metric varies so much that its score is clamped to 0, another has a
\* score strictly between 0 and 100.
C9_Witness ==
    /\ pc = "consistent"
    /\ raised = ""
    /\ \E m \in Metrics : analysis.consistency.stability_scores[m] = Zero
    /\ \E m \in Metrics :
           /\ RLt(Zero, analysis.consistency.stability_scores[m])
           /\ RLt(analysis.consistency.stability_scores[m], Hundred)

\* C10: when all values of a metric series are identical (all zero
\* included), calculate_consistency_metrics reports standard deviation 0
\* and stability 100 for that metric.
C10_IdenticalValuesStable ==
    pc = "consistent" =>
        \A m \in Metrics :
            (analysis.metrics[m] # <<>> /\ AllIdentical(analysis.metrics[m])) =>
                /\ raised = ""
                /\ analysis.consistency.standard_deviations[m] = Zero
                /\ analysis.consistency.stability_scores[m] = Hundred

C10_Witness ==
    /\ pc = "consistent"
    /\ raised = ""
    /\ Len(analysis.metrics.download) >= 2
    /\ \A i \in 1..Len(analysis.metrics.download) : analysis.metrics.download[i] = Zero
    /\ Len(analysis.metrics.upload) >= 2
    /\ \A i \in 1..Len(analysis.metrics.upload) : analysis.metrics.upload[i] = R(1)
    /\ ~AllIdentical(analysis.metrics.latency)

\* C11: in calculate_consistency_metrics the coefficient of variation of a
\* metric is stdev / mean when the mean is greater than 0 and 0 when the mean
\* is not, and no division by zero occurs for any metric series.
C11_CoefficientOfVariation ==
    pc = "consistent" =>
        /\ raised = ""
        /\ \A m \in Metrics :
               IF RLt(Zero, analysis.averages[m])
               THEN RMul(analysis.consistency.coefficients_of_variation[m],
                         analysis.averages[m])
                        = analysis.consistency.standard_deviations[m]
               ELSE analysis.consistency.coefficients_of_variation[m] = Zero

\* One metric has a positive mean and a positive deviation, another a
\* series of values whose mean is 0.
C11_Witness ==
    /\ pc = "consistent"
    /\ raised = ""
    /\ \E m \in Metrics :
           /\ RLt(Zero, analysis.averages[m])
           /\ RLt(Zero, analysis.consistency.coefficients_of_variation[m])
    /\ \E m \in Metrics :
           /\ Len(analysis.metrics[m]) >= 2
           /\ analysis.averages[m] = Zero

\* C12: the standard deviation of a metric series of fewer than 2 points
\* (empty or a single value) is 0 and no error is raised; with a single
\* value the stability of the metric is 100.
C12_FewPointsNoDeviation ==
    pc = "consistent" =>
        \A m \in Metrics :
            Len(analysis.metrics[m]) < 2 =>
                /\ raised = ""
                /\ analysis.consistency.standard_deviations[m] = Zero
                /\ Len(analysis.metrics[m]) = 1 =>
                       analysis.consistency.stability_scores[m] = Hundred

\* The three series have two values that differ, a single value and no
\* value.
C12_Witness ==
    /\ pc = "consistent"
    /\ raised = ""
    /\ Len(analysis.metrics.download) = 2
    /\ analysis.consistency.standard_deviations.download # Zero
    /\ Len(analysis.metrics.upload) = 1
    /\ analysis.metrics.upload[1] # Zero
    /\ analysis.metrics.latency = <<>>

\* C13: the overall stability score is 0.4 * download_stability
\* + 0.3 * upload_stability + 0.3 * latency_stability of the same result:
\* 10 * overall = 4 * download + 3 * upload + 3 * latency.
C13_OverallWeights ==
    (pc = "consistent" /\ raised = "") =>
        RMul(R(10), analysis.consistency.stability_scores.overall)
            = RAdd(RAdd(RMul(R(4), analysis.consistency.stability_scores.download),
                        RMul(R(3), analysis.consistency.stability_scores.upload)),
                   RMul(R(3), analysis.consistency.stability_scores.latency))

\* The three stability scores differ from each other.
C13_Witness ==
    /\ pc = "consistent"
    /\ raised = ""
    /\ analysis.consistency.stability_scores.download
           # analysis.consistency.stability_scores.upload
    /\ analysis.consistency.stability_scores.upload
           # analysis.consistency.stability_scores.latency
    /\ analysis.consistency.stability_scores.download
           # analysis.consistency.stability_scores.latency

\* The key of a record that feeds the series m.
KeyOf(m) ==
    CASE m = "download" -> "download"
      [] m = "upload" -> "upload"
      [] m = "latency" -> "ping"

IsComplete(entry) == MetricKeys \subseteq DOMAIN entry

\* The values under key k of the complete records of entries, in their order.
RECURSIVE CompleteValues(_, _)
CompleteValues(entries, k) ==
    IF entries = <<>> THEN <<>>
    ELSE IF IsComplete(Head(entries))
    THEN <<Head(entries)[k]>> \o CompleteValues(Tail(entries), k)
    ELSE CompleteValues(Tail(entries), k)

\* a can be had from b by leaving elements out.
RECURSIVE IsSubsequence(_, _)
IsSubsequence(a, b) ==
    IF a = <<>> THEN TRUE
    ELSE IF b = <<>> THEN FALSE
    ELSE IF Head(a) = Head(b) THEN IsSubsequence(Tail(a), Tail(b))
    ELSE IsSubsequence(a, Tail(b))

\* C15: extract_metrics preserves insertion order and continues after a
\* skipped record: the values of the complete records appear in each of the
\* three series in the order of the records, whatever incomplete records
\* lie before, between or after them.
C15_InsertionOrder ==
    HasAnalysis =>
        \A m \in Metrics :
            IsSubsequence(CompleteValues(data, KeyOf(m)), analysis.metrics[m])

\* Two complete records of different values with an incomplete record
\* between them.
C15_Witness ==
    /\ HasAnalysis
    /\ Len(data) = 3
    /\ IsComplete(data[1])
    /\ ~IsComplete(data[2])
    /\ IsComplete(data[3])
    /\ \A k \in MetricKeys : data[1][k] # data[3][k]

\* C16: averages.download (upload, latency) of an analysis is the
\* arithmetic mean of its own download (upload, latency) series: average
\* times length is the sum of the series, whenever the series is not empty.
C16_AveragesAreMeans ==
    HasAnalysis =>
        \A m \in Metrics :
            analysis.metrics[m] # <<>> =>
                RMul(analysis.averages[m], R(Len(analysis.metrics[m])))
                    = PySum(analysis.metrics[m])

\* A series of three values whose mean is none of them, beside a series of
\* another length.
C16_Witness ==
    /\ HasAnalysis
    /\ Len(analysis.metrics.download) = 3
    /\ analysis.averages.download \notin SeqToSet(analysis.metrics.download)
    /\ Len(analysis.metrics.latency) < 3

\* C17: the statistics core never raises: for every non-empty list of
\* records that hold all or only some of the three metric keys, each of
\* analyze_file_silent, calculate_consistency_metrics,
\* calculate_heuristic_score and rank_datasets returns a result.
C17_CoreNeverRaises ==
    /\ raised = ""
    /\ pc \in {"analyzed", "consistent", "scored", "ranked_one"} => HasAnalysis
    /\ pc \in {"consistent", "scored", "ranked_one"} =>
           "consistency" \in DOMAIN analysis
    /\ pc = "ranked_one" =>
           \A m \in DOMAIN rankings : Len(rankings[m]) = 1

\* What holds of the core: the one exception that leaves it is the TypeError
\* of subtracting the first timestamp from the last when only one of the two
\* carries a UTC offset, and it leaves analyze_file_silent.
CoreRaisesOnMixedTimestamps ==
    raised # "" =>
        /\ raised = "TypeError"
        /\ pc = "analyzed"
        /\ ~Raised(parse_timestamp(data[1]))
        /\ ~Raised(parse_timestamp(data[Len(data)]))
        /\ parse_timestamp(data[1]).val.aware
               # parse_timestamp(data[Len(data)]).val.aware

\* The whole pipeline has run on records that are all incomplete, one of
\* them without any of the keys.
C17_Witness ==
    /\ pc = "ranked_one"
    /\ raised = ""
    /\ Len(data) >= 2
    /\ \A i \in 1..Len(data) : ~IsComplete(data[i])
    /\ \E i \in 1..Len(data) : DOMAIN data[i] = {}
    /\ analysis.metrics.download # <<>>

\* C18: when a loaded, non-empty dataset yields an empty metric series, the
\* averages and statistics computed for it are 0 and nothing is raised, in
\* analyze_file_silent and in the single-file mode of main with
\* --consistency or --report.
C18_EmptySeriesDefaults ==
    file_metrics # None =>
        \A m \in Metrics :
            file_metrics[m] = <<>> =>
                /\ raised = ""
                /\ analysis_obj # None => analysis_obj.averages[m] = Zero
                /\ pc = "report" => StatsOf(analysis_obj, m) = ZeroStatistics
                /\ analysis # None =>
                       /\ analysis.averages[m] = Zero
                       /\ StatsOf(analysis, m) = ZeroStatistics

\* --------------------------------------------------- properties of rankings
LatencyRankings == {"avg_latency", "median_latency"}

RankingNames ==
    {"heuristic", "avg_download", "avg_upload", "avg_latency",
     "median_download", "median_upload", "median_latency",
     "max_download", "max_upload", "min_download", "min_upload"}

Ranked == pc = "ranked" /\ raised = ""

Ascending(ranking) ==
    \A i \in 1..(Len(ranking) - 1) : RLe(ranking[i][2], ranking[i + 1][2])

Descending(ranking) ==
    \A i \in 1..(Len(ranking) - 1) : RLe(ranking[i + 1][2], ranking[i][2])

\* The filenames of a ranking, first to last.
Order(ranking) == [i \in 1..Len(ranking) |-> ranking[i][1]]

\* The values of a ranking, first to last.
Values(ranking) == [i \in 1..Len(ranking) |-> ranking[i][2]]

\* The analyses are those of the fixture datasets A, B, C, in this order.
FixtureRanked ==
    /\ Ranked
    /\ Len(valid_analyses) = 3
    /\ valid_analyses[1].metrics = extract_metrics(FixtureA)
    /\ valid_analyses[2].metrics = extract_metrics(FixtureB)
    /\ valid_analyses[3].metrics = extract_metrics(FixtureC)

\* The names of the fixture datasets in the order B, C, A.
FixtureOrder ==
    <<valid_analyses[2].filename, valid_analyses[3].filename,
      valid_analyses[1].filename>>

\* The place of the dataset named f in the input of rank_datasets.
InputPlace(f) ==
    CHOOSE k \in 1..Len(valid_analyses) : valid_analyses[k].filename = f

\* C2: the avg_latency and median_latency rankings are sorted by value
\* ascending and every other ranking by value descending; for the fixture
\* A(50, 10, 20), B(100, 20, 10), C(75, 15, 15) the heuristic ranking
\* (scores 12, 6, 3) and the avg_latency ranking (10, 15, 20) are B, C, A.
C2_RankingDirections ==
    Ranked =>
        /\ \A m \in LatencyRankings : Ascending(rankings[m])
        /\ \A m \in RankingNames \ LatencyRankings : Descending(rankings[m])
        /\ FixtureRanked =>
               /\ Order(rankings.heuristic) = FixtureOrder
               /\ Values(rankings.heuristic) = <<R(12), R(6), R(3)>>
               /\ Order(rankings.avg_latency) = FixtureOrder
               /\ Values(rankings.avg_latency) = <<R(10), R(15), R(20)>>

C2_Witness == FixtureRanked

\* C3: every ranking is stable: two datasets with equal value for the ranked
\* metric keep the relative order they have in the input analyses, in the
\* descending rankings and in the ascending latency rankings alike.
C3_RankingsStable ==
    Ranked =>
        \A m \in RankingNames :
            \A i, j \in 1..Len(rankings[m]) :
                (i < j /\ rankings[m][i][2] = rankings[m][j][2]) =>
                    InputPlace(rankings[m][i][1]) < InputPlace(rankings[m][j][1])

\* Three datasets: the first and the last tie in a descending ranking and in
\* an ascending one, and the middle one ranks before them in the first and
\* behind them in the second.
C3_Witness ==
    /\ Ranked
    /\ Len(valid_analyses) = 3
    /\ Order(rankings.avg_download) =
           <<valid_analyses[2].filename, valid_analyses[1].filename,
             valid_analyses[3].filename>>
    /\ rankings.avg_download[2][2] = rankings.avg_download[3][2]
    /\ Order(rankings.avg_latency) =
           <<valid_analyses[1].filename, valid_analyses[3].filename,
             valid_analyses[2].filename>>
    /\ rankings.avg_latency[1][2] = rankings.avg_latency[2][2]

\* (avg_download + avg_upload) / avg_latency, 0 for a zero latency
HeuristicOf(a) ==
    IF a.averages.latency = Zero THEN Zero
    ELSE RQuot(RAdd(a.averages.download, a.averages.upload), a.averages.latency)

\* The value of the analysis a for the ranked metric m.
ValueOf(a, m) ==
    CASE m = "heuristic" -> HeuristicOf(a)
      [] m = "avg_download" -> a.averages.download
      [] m = "avg_upload" -> a.averages.upload
      [] m = "avg_latency" -> a.averages.latency
      [] m = "median_download" -> a.download_stats.median
      [] m = "median_upload" -> a.upload_stats.median
      [] m = "median_latency" -> a.latency_stats.median
      [] m = "max_download" -> a.download_stats.max
      [] m = "max_upload" -> a.upload_stats.max
      [] m = "min_download" -> a.download_stats.min
      [] m = "min_upload" -> a.upload_stats.min

\* C14: rank_datasets returns rankings for exactly the eleven metrics, and
\* each ranking holds exactly one (filename, value) pair for each input
\* analysis, the value being that of the analysis for the metric: no dataset
\* is dropped or duplicated.
C14_RankingsArePermutations ==
    Ranked =>
        /\ DOMAIN rankings = RankingNames
        /\ \A m \in RankingNames :
               /\ Len(rankings[m]) = Len(valid_analyses)
               /\ \A k \in 1..Len(valid_analyses) :
                      \E i \in 1..Len(rankings[m]) :
                          /\ rankings[m][i] =
                                 <<valid_analyses[k].filename,
                                   ValueOf(valid_analyses[k], m)>>
                          /\ \A j \in 1..Len(rankings[m]) :
                                 rankings[m][j][1] = valid_analyses[k].filename
                                     => j = i

\* Three datasets of which two tie in one ranking, ranked in an order that
\* is not the order of the input.
C14_Witness ==
    /\ Ranked
    /\ Len(valid_analyses) = 3
    /\ rankings.avg_download[1][2] = rankings.avg_download[2][2]
    /\ rankings.avg_download[3][2] # rankings.avg_download[2][2]
    /\ Order(rankings.heuristic) =
           <<valid_analyses[3].filename, valid_analyses[1].filename,
             valid_analyses[2].filename>>

\* ------------------------------------------------ properties of the modes
\* float() accepts the value: it is a number or the string of one.
Coercible(v) == IF IsNumber(v) THEN TRUE ELSE v.json = "numeric_text"

\* The document is a non-empty list whose first record holds download.mbps,
\* upload.mbps and ping.latency with values float() accepts.
SchemaValid(d) ==
    /\ IsList(d)
    /\ d # <<>>
    /\ \A k \in MetricKeys : k \in DOMAIN d[1] /\ Coercible(d[1][k])

\* Nothing usable is found at the file: it is missing, is no JSON, is empty
\* or fails the schema.
BadFile(f) ==
    \/ f.kind # "json"
    \/ ~SchemaValid(f.data)

ValidNames == {valid_analyses[i].filename : i \in 1..Len(valid_analyses)}

InvalidNames == SeqToSet(invalid_files)

\* Every file read has ended in exactly one of valid_analyses and
\* invalid_files, a bad file in invalid_files and any other file, a file
\* after a bad file included, in valid_analyses; the ranking ranks all
\* analysed files.
FilesAccounted ==
    /\ Len(valid_analyses) + Len(invalid_files) = Len(processed)
    /\ \A k \in 1..Len(processed) :
           IF BadFile(processed[k])
           THEN FileNames[k] \in InvalidNames /\ FileNames[k] \notin ValidNames
           ELSE FileNames[k] \in ValidNames /\ FileNames[k] \notin InvalidNames
    /\ Ranked =>
           \A m \in RankingNames : SeqToSet(Order(rankings[m])) = ValidNames

\* C19: in batch mode a missing, unparseable, empty or schema-invalid file
\* is never fatal: no error ends the run, every file read ends in exactly
\* one of valid_analyses and invalid_files, a bad file ends in
\* invalid_files, a file after a bad file is analysed, and the ranking ranks
\* all analysed files.
C19_BadFileNotFatal == raised = "" /\ FilesAccounted

\* The same for the runs that no error has ended.
SkipAndContinue == raised = "" => FilesAccounted

\* A missing file, then two good files, both of them analysed and ranked,
\* the later one first.
SkipAndContinueWitness ==
    /\ Ranked
    /\ Len(processed) = 3
    /\ processed[1] = MissingFile
    /\ ~BadFile(processed[2])
    /\ ~BadFile(processed[3])
    /\ Order(rankings.avg_download) = <<FileNames[3], FileNames[2]>>

\* C20: validate_schema is a gate before the core: in batch mode and in
\* single-file mode, extract_metrics is only executed on a dataset for which
\* validate_schema has returned True earlier in the run.
C20_SchemaGate == core_ran => validated

\* C21: validate_schema(data) returns true exactly when data is a non-empty
\* list whose first record has download.mbps, upload.mbps and ping.latency
\* with float-coercible values, and returns false otherwise without
\* raising; the records after the first do not influence the result.
C21_ValidateSchema ==
    pc = "validated" => (raised = "" /\ validated = SchemaValid(data))

\* The same for the documents on which no float() call overflows.
ValidateSchemaUpToOverflow ==
    (pc = "validated" /\ raised # "OverflowError") =>
        (raised = "" /\ validated = SchemaValid(data))

\* ------------------------------------------- orientation, timestamps, counts
\* The values of the field k in the records that hold it, in input order.
RECURSIVE ValuesPresent(_, _)
ValuesPresent(entries, k) ==
    IF entries = <<>> THEN <<>>
    ELSE (IF HasKey(Head(entries), k) THEN <<Head(entries)[k]>> ELSE <<>>)
             \o ValuesPresent(Tail(entries), k)

\* The same, a record without the field counting as the value 0.
ValuesOrZero(entries, k) ==
    [i \in 1..Len(entries) |-> IF HasKey(entries[i], k) THEN entries[i][k] ELSE 0]

Occurrences(values, v) == Cardinality({i \in 1..Len(values) : values[i] = v})

\* v is a most frequent value of values and, of those, the first encountered.
MostFrequentFirst(values, v) ==
    \E i \in 1..Len(values) :
        /\ values[i] = v
        /\ \A j \in 1..Len(values) :
               Occurrences(values, values[j]) <= Occurrences(values, v)
        /\ \A j \in 1..(i - 1) :
               Occurrences(values, values[j]) < Occurrences(values, v)

\* C22 as stated: primary_direction (primary_tilt) is the most frequent
\* direction_degrees (tilt) value among the records that hold one, the first
\* encountered of the most frequent ones.
C22_PrimaryAmongRecords ==
    HasAnalysis =>
        /\ ValuesPresent(data, "direction_degrees") # <<>> =>
               MostFrequentFirst(ValuesPresent(data, "direction_degrees"),
                                 analysis.directional_info.primary_direction)
        /\ ValuesPresent(data, "tilt") # <<>> =>
               MostFrequentFirst(ValuesPresent(data, "tilt"),
                                 analysis.directional_info.primary_tilt)

\* C22, amended: primary_direction (primary_tilt) is the most frequent
\* direction_degrees (tilt) value of the records, a record without the field
\* counting as 0, and of several most frequent values the one encountered
\* first in input order.
C22_PrimaryIsMode ==
    HasAnalysis =>
        /\ MostFrequentFirst(ValuesOrZero(data, "direction_degrees"),
                             analysis.directional_info.primary_direction)
        /\ MostFrequentFirst(ValuesOrZero(data, "tilt"),
                             analysis.directional_info.primary_tilt)

\* The directions [10, 10, 20] give 10, and of the tilts [40, 30, 0], each
\* seen once, the first is primary.
C22_Witness ==
    /\ pc = "analyzed"
    /\ raised = ""
    /\ ValuesOrZero(data, "direction_degrees") = <<10, 10, 20>>
    /\ ValuesOrZero(data, "tilt") = <<40, 30, 0>>
    /\ analysis.directional_info.primary_direction = 10
    /\ analysis.directional_info.primary_tilt = 40

\* C23 as stated: direction_degrees and tilt_degrees are exactly the sets of
\* the values that occur in the records: every value of a record is present
\* and no value is present that occurs in no record.
C23_DistinctValuesSeen ==
    HasAnalysis =>
        /\ analysis.directional_info.direction_degrees
               = {ValuesPresent(data, "direction_degrees")[i] :
                     i \in 1..Len(ValuesPresent(data, "direction_degrees"))}
        /\ analysis.directional_info.tilt_degrees
               = {ValuesPresent(data, "tilt")[i] :
                     i \in 1..Len(ValuesPresent(data, "tilt"))}

\* C23, amended: direction_degrees and tilt_degrees are exactly the sets of
\* the values of the records, a record without the field counting as 0: every
\* such value is present, and no other.
C23_DistinctValues ==
    HasAnalysis =>
        /\ \A v \in analysis.directional_info.direction_degrees :
               \E i \in 1..Len(data) : ValuesOrZero(data, "direction_degrees")[i] = v
        /\ \A i \in 1..Len(data) :
               ValuesOrZero(data, "direction_degrees")[i]
                   \in analysis.directional_info.direction_degrees
        /\ \A v \in analysis.directional_info.tilt_degrees :
               \E i \in 1..Len(data) : ValuesOrZero(data, "tilt")[i] = v
        /\ \A i \in 1..Len(data) :
               ValuesOrZero(data, "tilt")[i] \in analysis.directional_info.tilt_degrees

\* Three records, two of the same direction and one without a direction:
\* two distinct values, the 0 of the missing field among them.
C23_Witness ==
    /\ pc = "analyzed"
    /\ raised = ""
    /\ ValuesPresent(data, "direction_degrees") = <<10, 10>>
    /\ Len(data) = 3
    /\ analysis.directional_info.direction_degrees = {0, 10}
    /\ analysis.directional_info.tilt_degrees = {0}

\* C25: the timestamps of an analysis are none or one per value of each
\* metric series, and every entry of the extracted time series has as many
\* timestamps as download speeds, upload speeds and latencies.
C25_TimestampsMatchSeries ==
    /\ HasAnalysis =>
           \/ analysis.timestamps = <<>>
           \/ \A m \in Metrics : Len(analysis.timestamps) = Len(analysis.metrics[m])
    /\ (pc = "extracted" /\ raised = "") =>
           \A i \in 1..Len(time_series) :
               /\ Len(time_series[i].timestamps) = Len(time_series[i].download_speeds)
               /\ Len(time_series[i].timestamps) = Len(time_series[i].upload_speeds)
               /\ Len(time_series[i].timestamps) = Len(time_series[i].latencies)

\* C30: test_count is the number of records loaded, the records that
\* extract_metrics skipped included, so it is at least the length of each of
\* the three metric series.
C30_TestCount ==
    HasAnalysis =>
        /\ analysis.test_count = Len(data)
        /\ \A m \in Metrics : analysis.test_count >= Len(analysis.metrics[m])

\* Three records, one without the ping key: the count is 3, the latency
\* series holds 2 values.
C30_Witness ==
    /\ pc = "analyzed"
    /\ raised = ""
    /\ Len(data) = 3
    /\ analysis.test_count = 3
    /\ Len(analysis.metrics.latency) = 2

\* ------------------------------------------------------------ frame effect
\* after is before, but for a consistency field it may have gained.
SameButConsistency(before, after) ==
    /\ DOMAIN before \subseteq DOMAIN after
    /\ DOMAIN after \subseteq DOMAIN before \cup {"consistency"}
    /\ \A k \in DOMAIN before \ {"consistency"} : after[k] = before[k]

\* C24: once analyze_file_silent has made an analysis, no step changes it but
\* by attaching the consistency field: the list of analyses keeps its
\* analyses, their order and every other field of each, the metric series
\* included, through calculate_consistency_metrics, calculate_heuristic_score
\* and rank_datasets.
C24_AnalysesNotMutated ==
    [][/\ Len(valid_analyses') >= Len(valid_analyses)
       /\ \A i \in 1..Len(valid_analyses) :
              SameButConsistency(valid_analyses[i], valid_analyses'[i])]_vars

\* Two analyses have been ranked with their consistency attached, and still
\* hold the series and the count they were made with.
C24_Witness ==
    /\ pc = "ranked"
    /\ raised = ""
    /\ Len(valid_analyses) = 2
    /\ rankings # None
    /\ \A i \in 1..2 :
           /\ "consistency" \in DOMAIN valid_analyses[i]
           /\ valid_analyses[i].test_count = 1
           /\ Len(valid_analyses[i].metrics.download) = 1

\* ------------------------------------------------------ the reports index
\* The link of the k-th call that returned.
LinkOfCall(k) ==
    [href |-> index_calls[k].call.report_filename,
     title |-> index_calls[k].call.report_title,
     description |-> index_calls[k].call.report_description,
     generated |-> index_calls[k].timestamp]

\* C26: from a directory without index.html, after n calls of
\* update_reports_index the text between the two markers holds the links of
\* all n calls, none lost, the newest first.
C26_IndexKeepsAllLinks ==
    /\ index_html.exists <=> index_calls # <<>>
    /\ index_html.exists =>
           /\ Len(index_html.links_html) = Len(index_calls)
           /\ \A k \in 1..Len(index_calls) :
                  index_html.links_html[Len(index_calls) + 1 - k] = LinkOfCall(k)

\* Three calls have returned, of both kinds of report, two of them in the
\* same second, and the newest link is the first.
C26_Witness ==
    /\ Len(index_calls) = 3
    /\ index_calls[1].call # index_calls[2].call
    /\ index_calls[2].timestamp = index_calls[3].timestamp
    /\ index_calls[1].call.report_title # index_calls[3].call.report_title
    /\ index_html.links_html[1] = LinkOfCall(3)
    /\ index_html.links_html[3] = LinkOfCall(1)

\* C27: the Total Reports value of index.html is the number of links the
\* index lists, n after n calls.
C27_TotalReports ==
    index_html.exists =>
        /\ index_html.total_reports = Len(index_html.links_html)
        /\ index_html.total_reports = Len(index_calls)

\* What holds of the value: it is 1 after the first call and 2 after every
\* later one.
TotalReportsAtMostTwo ==
    index_html.exists =>
        index_html.total_reports = (IF Len(index_calls) = 1 THEN 1 ELSE 2)

\* ------------------------------------------------------ the one-file script
\* C28: present_comparative_analysis of the one-file script returns without
\* an error for every non-empty list of valid analyses and every combination
\* of its four flags, so the batch mode runs to completion.
C28_PresentReturns == raised = ""

\* What holds instead: no call returns.  Without generate_report the return
\* statement reads a local that was never bound; with it the Champion card
\* of the report subscripts a file name.
PresentAlwaysRaises ==
    /\ pc = "returned" => raised = "UnboundLocalError"
    /\ pc = "reported" => raised = "TypeError"
    /\ pc \in {"ranked", "plotted"} => raised = ""

\* ------------------------------------------------------ the referral link
\* The referral code interpolate works with.
CodeOf(user) == IF HasKey(user, "referral_code") THEN user.referral_code ELSE "DEFAULTCODE"

\* The referral link 'https://nstcg.org/survey?ref={{user_referral_code}}'
\* starts at the piece i of the template.
ReferralLinkAt(i) ==
    /\ i + 2 <= Len(template)
    /\ template[i] = Lit("https://nstcg.org")
    /\ template[i + 1] = Lit("/survey?ref=")
    /\ template[i + 2] = Lit("{{user_referral_code}}")

\* C29: every occurrence of the referral link in the template appears in the
\* text interpolate returns as the share URL of the referral code,
\* 'https://nstcg.org/?ref=<referral_code>'.
C29_ReferralLinksBecomeShareUrls ==
    pc = "interpolated" =>
        \A i \in 1..Len(template) :
            ReferralLinkAt(i) =>
                /\ content[i] = Lit("https://nstcg.org")
                /\ content[i + 1] = Lit("/?ref=")
                /\ content[i + 2] = Lit(CodeOf(user_data))

\* What holds instead: the link keeps its /survey path, with the referral
\* code in the place of the placeholder.
ReferralLinksKeepSurveyPath ==
    pc = "interpolated" =>
        /\ Len(content) = Len(template)
        /\ \A i \in 1..Len(template) :
               ReferralLinkAt(i) =>
                   /\ content[i] = Lit("https://nstcg.org")
                   /\ content[i + 1] = Lit("/survey?ref=")
                   /\ content[i + 2] = Lit(CodeOf(user_data))

====
